---------------------------- MODULE Spec2Model ----------------------------
(***************************************************************************)
(* A model of the ASTC bridge (bridge.cpp / bridge.h) and of the container *)
(* framing of the benchmark harness (astcbenchcpp.cpp).                    *)
(*                                                                         *)
(* Three behaviour specifications share the module:                        *)
(*   SpecSlice      the image views (slice tables) built by the entry      *)
(*                  points of the bridge, as functions of their arguments; *)
(*   SpecProgress   the thread-local progress slot under concurrent and    *)
(*                  nested compress calls;                                 *)
(*   SpecContainer  the container header writer and reader.                *)
(* Each specification moves its own variables and leaves the others at     *)
(* their initial values.                                                   *)
(*                                                                         *)
(* Machine integers are scaled: unsigned int has UIntBits bits and size_t  *)
(* (and a pointer) has twice as many, as on the LP64 targets of the bridge *)
(* (32 and 64).  Every size_t operation is reduced modulo SizeMod, so the  *)
(* wrap-around of the real arithmetic is present in the model.             *)
(***************************************************************************)
EXTENDS Integers, Sequences, FiniteSets, TLC

VARIABLES
    call,       \* SpecSlice: the request handed to an entry point
    out,        \* SpecSlice: what the entry point returned and built
    ctxs,       \* SpecProgress: the contexts allocated so far
    tls,        \* SpecProgress: astc_native_tls_progress_handle, per slot
    stack,      \* SpecProgress: per thread, the compress calls in progress
    sink,       \* SpecProgress: the calls of astc_native_go_progress made by the last step
    registered, \* SpecProgress: (history) the threads that registered a handle
    last,       \* SpecProgress: (history) the progress point or return of the last step
    enc,        \* SpecContainer: the arguments of encode_main
    file,       \* SpecContainer: the container file on disk
    dec         \* SpecContainer: the outcome of decode_main

sliceVars == <<call, out>>
progVars  == <<ctxs, tls, stack, sink, registered, last>>
contVars  == <<enc, file, dec>>
vars      == <<call, out, ctxs, tls, stack, sink, registered, last, enc, file, dec>>

---------------------------------------------------------------------------
(* Bounds of the model.                                                    *)

\* Bits of an unsigned int; a size_t has twice as many.  From 4 bits on, as on
\* the machine, 16 times one dimension fits a size_t and 4 times the product
\* of two dimensions need not.
UIntBits == 4

MaxDim == 4

---------------------------------------------------------------------------
(* Machine arithmetic.                                                     *)

SizeBits == 2 * UIntBits

UIntMod == 2 ^ UIntBits

SizeMod == 2 ^ SizeBits

Min(a, b) == IF a <= b THEN a ELSE b

\* The values of the unsigned int dimension arguments that are drawn.
Dims == 0 .. Min(MaxDim, UIntMod - 1)

\* static_cast<size_t>(v) of an unsigned int.
SizeT(v) == v % SizeMod

\* a * b in size_t.
MulSz(a, b) == (a * b) % SizeMod

\* p + n for a pointer p to elements of esize bytes, as an address.
PtrAdd(p, n, esize) == (p + n * esize) % SizeMod

NULL == 0

\* int data_type: 0=u8, 1=f16, 2=f32.
ASTCENC_TYPE_U8 == 0

ASTCENC_TYPE_F16 == 1

ASTCENC_TYPE_F32 == 2

ASTCENC_SUCCESS == "ASTCENC_SUCCESS"

ASTCENC_ERR_OUT_OF_MEM == "ASTCENC_ERR_OUT_OF_MEM"

ASTCENC_ERR_BAD_PARAM == "ASTCENC_ERR_BAD_PARAM"

\* Results the codec itself may give once it is invoked.
CodecResults == {ASTCENC_SUCCESS, "ASTCENC_ERR_BAD_CONTEXT", ASTCENC_ERR_OUT_OF_MEM}

\* sizeof of the element type a branch casts the base pointer to.
Sizeof(T) ==
    CASE T = "uint8_t"  -> 1
      [] T = "uint16_t" -> 2
      [] T = "float"    -> 4

\* size_t slice_stride = size_t(dim_x) * size_t(dim_y) * 4, in elements.
SliceStride(dim_x, dim_y) == MulSz(MulSz(SizeT(dim_x), SizeT(dim_y)), 4)

SliceTableBytes(base, T, dim_x, dim_y, dim_z) ==
    [i \in 1 .. dim_z |->
        PtrAdd(base, MulSz(SizeT(i - 1), SliceStride(dim_x, dim_y)), 1)]

\* The loop "for z < dim_z: slices[z] = base + size_t(z) * slice_stride" over
\* a base pointer of type T*; entry z of the C array is element z + 1 here.
SliceTable(base, T, dim_x, dim_y, dim_z) ==
    [i \in 1 .. dim_z |->
        PtrAdd(base, MulSz(SizeT(i - 1), SliceStride(dim_x, dim_y)), Sizeof(T))]

---------------------------------------------------------------------------
(* Swizzle.  A pointer to a descriptor is <<>> when absent, <<d>> else.    *)

ASTCENC_SWZ_R == 0

ASTCENC_SWZ_G == 1

ASTCENC_SWZ_B == 2

ASTCENC_SWZ_A == 3

makeSwizzleSwapped(in_swz) ==
    IF in_swz = <<>>
    THEN [r |-> ASTCENC_SWZ_R, g |-> ASTCENC_SWZ_G, b |-> ASTCENC_SWZ_B, a |-> ASTCENC_SWZ_A]
    ELSE [r |-> in_swz[1].b, g |-> in_swz[1].g, b |-> in_swz[1].r, a |-> in_swz[1].a]

makeSwizzle(in_swz) ==
    IF in_swz = <<>>
    THEN [r |-> ASTCENC_SWZ_R, g |-> ASTCENC_SWZ_G, b |-> ASTCENC_SWZ_B, a |-> ASTCENC_SWZ_A]
    ELSE [r |-> in_swz[1].r, g |-> in_swz[1].g, b |-> in_swz[1].b, a |-> in_swz[1].a]

---------------------------------------------------------------------------
(* Image views.  An astcenc_image is a record; its data field is the slice *)
(* table, <<>> for nullptr.                                                *)

NoImg == [dim_x |-> 0, dim_y |-> 0, dim_z |-> 0, data_type |-> ASTCENC_TYPE_U8, data |-> <<>>]

NoSwz == [r |-> 0, g |-> 0, b |-> 0, a |-> 0]

\* An early return: the codec is not invoked and no view is handed over.
EarlyReturn(err) == [ret |-> err, invoked |-> FALSE, img |-> NoImg, swz |-> NoSwz]

\* The view set up by the fields assignments and the slice loop of one branch.
View(data_type, T, dim_x, dim_y, dim_z, base) ==
    [dim_x |-> dim_x, dim_y |-> dim_y, dim_z |-> dim_z, data_type |-> data_type,
     data |-> SliceTable(base, T, dim_x, dim_y, dim_z)]

\* astc_native_compress_image_ex up to and including the call of the codec; r
\* holds the arguments and r.codec the result the codec gives if invoked.  The
\* progress slot is saved before and restored after the codec call: its steps
\* are the actions of SpecProgress.
astc_native_compress_image_ex(r) ==
    IF r.ctxp = NULL \/ r.rgba = NULL \/ r.out_data = NULL
       \/ r.dim_x = 0 \/ r.dim_y = 0 \/ r.dim_z = 0
    THEN EarlyReturn(ASTCENC_ERR_BAD_PARAM)
    ELSE IF r.data_type = ASTCENC_TYPE_U8
    THEN [ret |-> r.codec, invoked |-> TRUE, swz |-> makeSwizzle(r.in_swz),
          img |-> View(r.data_type, "uint8_t", r.dim_x, r.dim_y, r.dim_z, r.rgba)]
    ELSE IF r.data_type = ASTCENC_TYPE_F16
    THEN [ret |-> r.codec, invoked |-> TRUE, swz |-> makeSwizzle(r.in_swz),
          img |-> View(r.data_type, "uint16_t", r.dim_x, r.dim_y, r.dim_z, r.rgba)]
    ELSE IF r.data_type = ASTCENC_TYPE_F32
    THEN [ret |-> r.codec, invoked |-> TRUE, swz |-> makeSwizzle(r.in_swz),
          img |-> View(r.data_type, "float", r.dim_x, r.dim_y, r.dim_z, r.rgba)]
    ELSE EarlyReturn(ASTCENC_ERR_BAD_PARAM)

\* size_t texel_count and need of astc_native_decompress_image_ex, for a
\* supported out_type.
DecompressNeed(out_type, dim_x, dim_y, dim_z) ==
    LET texel_count == MulSz(MulSz(SizeT(dim_x), SizeT(dim_y)), SizeT(dim_z))
    IN  CASE out_type = ASTCENC_TYPE_U8  -> MulSz(texel_count, 4)
          [] out_type = ASTCENC_TYPE_F16 -> MulSz(MulSz(texel_count, 4), Sizeof("uint16_t"))
          [] out_type = ASTCENC_TYPE_F32 -> MulSz(MulSz(texel_count, 4), Sizeof("float"))

decompress_image_ex_size_check_first(r) ==
    IF r.out_len < MulSz(MulSz(MulSz(SizeT(r.dim_x), SizeT(r.dim_y)), SizeT(r.dim_z)), 4)
    THEN EarlyReturn(ASTCENC_ERR_OUT_OF_MEM)
    ELSE IF r.ctxp = NULL \/ r.data = NULL \/ r.out_rgba = NULL
            \/ r.dim_x = 0 \/ r.dim_y = 0 \/ r.dim_z = 0
            \/ r.out_type \notin {ASTCENC_TYPE_U8, ASTCENC_TYPE_F16, ASTCENC_TYPE_F32}
    THEN EarlyReturn(ASTCENC_ERR_BAD_PARAM)
    ELSE [ret |-> r.codec, invoked |-> TRUE, swz |-> makeSwizzle(r.in_swz),
          img |-> View(r.out_type,
                       CASE r.out_type = ASTCENC_TYPE_U8 -> "uint8_t"
                         [] r.out_type = ASTCENC_TYPE_F16 -> "uint16_t"
                         [] OTHER -> "float",
                       r.dim_x, r.dim_y, r.dim_z, r.out_rgba)]

astc_native_decompress_image_ex(r) ==
    IF r.ctxp = NULL \/ r.data = NULL \/ r.out_rgba = NULL
       \/ r.dim_x = 0 \/ r.dim_y = 0 \/ r.dim_z = 0
    THEN EarlyReturn(ASTCENC_ERR_BAD_PARAM)
    ELSE IF r.out_type \notin {ASTCENC_TYPE_U8, ASTCENC_TYPE_F16, ASTCENC_TYPE_F32}
    THEN EarlyReturn(ASTCENC_ERR_BAD_PARAM)
    ELSE IF r.out_len < DecompressNeed(r.out_type, r.dim_x, r.dim_y, r.dim_z)
    THEN EarlyReturn(ASTCENC_ERR_OUT_OF_MEM)
    ELSE IF r.out_type = ASTCENC_TYPE_U8
    THEN [ret |-> r.codec, invoked |-> TRUE, swz |-> makeSwizzle(r.in_swz),
          img |-> View(r.out_type, "uint8_t", r.dim_x, r.dim_y, r.dim_z, r.out_rgba)]
    ELSE IF r.out_type = ASTCENC_TYPE_F16
    THEN [ret |-> r.codec, invoked |-> TRUE, swz |-> makeSwizzle(r.in_swz),
          img |-> View(r.out_type, "uint16_t", r.dim_x, r.dim_y, r.dim_z, r.out_rgba)]
    ELSE [ret |-> r.codec, invoked |-> TRUE, swz |-> makeSwizzle(r.in_swz),
          img |-> View(r.out_type, "float", r.dim_x, r.dim_y, r.dim_z, r.out_rgba)]

\* The swizzle of the fixed-kind entry points.
IdentitySwizzle ==
    [r |-> ASTCENC_SWZ_R, g |-> ASTCENC_SWZ_G, b |-> ASTCENC_SWZ_B, a |-> ASTCENC_SWZ_A]

astc_native_decompress_image_rgba8(r) ==
    IF r.ctxp = NULL \/ r.data = NULL \/ r.out_rgba = NULL
       \/ r.dim_x = 0 \/ r.dim_y = 0 \/ r.dim_z = 0
    THEN EarlyReturn(ASTCENC_ERR_BAD_PARAM)
    ELSE LET need == MulSz(MulSz(MulSz(SizeT(r.dim_x), SizeT(r.dim_y)), SizeT(r.dim_z)), 4)
         IN  IF r.out_len < need
             THEN EarlyReturn(ASTCENC_ERR_OUT_OF_MEM)
             ELSE [ret |-> r.codec, invoked |-> TRUE, swz |-> IdentitySwizzle,
                   img |-> View(ASTCENC_TYPE_U8, "uint8_t", r.dim_x, r.dim_y, r.dim_z,
                                r.out_rgba)]

\* A float entry point whose required size leaves out sizeof(float).
decompress_image_rgba32f_need_in_texels(r) ==
    IF r.ctxp = NULL \/ r.data = NULL \/ r.out_rgba = NULL
       \/ r.dim_x = 0 \/ r.dim_y = 0 \/ r.dim_z = 0
    THEN EarlyReturn(ASTCENC_ERR_BAD_PARAM)
    ELSE LET need == MulSz(MulSz(MulSz(SizeT(r.dim_x), SizeT(r.dim_y)), SizeT(r.dim_z)), 4)
         IN  IF r.out_len < need
             THEN EarlyReturn(ASTCENC_ERR_OUT_OF_MEM)
             ELSE [ret |-> r.codec, invoked |-> TRUE, swz |-> IdentitySwizzle,
                   img |-> View(ASTCENC_TYPE_F32, "float", r.dim_x, r.dim_y, r.dim_z,
                                r.out_rgba)]

astc_native_decompress_image_rgba32f(r) ==
    IF r.ctxp = NULL \/ r.data = NULL \/ r.out_rgba = NULL
       \/ r.dim_x = 0 \/ r.dim_y = 0 \/ r.dim_z = 0
    THEN EarlyReturn(ASTCENC_ERR_BAD_PARAM)
    ELSE LET need == MulSz(MulSz(MulSz(MulSz(SizeT(r.dim_x), SizeT(r.dim_y)), SizeT(r.dim_z)), 4),
                           Sizeof("float"))
         IN  IF r.out_len < need
             THEN EarlyReturn(ASTCENC_ERR_OUT_OF_MEM)
             ELSE [ret |-> r.codec, invoked |-> TRUE, swz |-> IdentitySwizzle,
                   img |-> View(ASTCENC_TYPE_F32, "float", r.dim_x, r.dim_y, r.dim_z,
                                r.out_rgba)]

---------------------------------------------------------------------------
(* Persistent image objects.  A pointer to an image is <<>> when absent and *)
(* <<img>> else.                                                           *)

\* The image astc_native_image_create_u8 / _f16 / _f32 allocate.
astc_native_image_create_u8 ==
    [dim_x |-> 0, dim_y |-> 0, dim_z |-> 0, data_type |-> ASTCENC_TYPE_U8, data |-> <<>>]

astc_native_image_create_f16 ==
    [dim_x |-> 0, dim_y |-> 0, dim_z |-> 0, data_type |-> ASTCENC_TYPE_F16, data |-> <<>>]

astc_native_image_create_f32 ==
    [dim_x |-> 0, dim_y |-> 0, dim_z |-> 0, data_type |-> ASTCENC_TYPE_F32, data |-> <<>>]

\* The body of an init call that allocates the table only when it is absent.
ImageInitKeepTable(imgp, data_type, T, dim_x, dim_y, dim_z, rgba) ==
    IF imgp = <<>> \/ rgba = NULL \/ dim_x = 0 \/ dim_y = 0 \/ dim_z = 0
    THEN [ret |-> ASTCENC_ERR_BAD_PARAM, invoked |-> FALSE, swz |-> NoSwz,
          img |-> IF imgp = <<>> THEN NoImg ELSE imgp[1], oob |-> FALSE]
    ELSE LET img == imgp[1]
             cap == IF img.data = <<>> THEN dim_z ELSE Len(img.data)
             tbl == SliceTable(rgba, T, dim_x, dim_y, dim_z)
         IN  [ret |-> ASTCENC_SUCCESS, invoked |-> FALSE, swz |-> NoSwz,
              img |-> [dim_x |-> dim_x, dim_y |-> dim_y, dim_z |-> dim_z,
                       data_type |-> data_type,
                       data |-> [i \in 1 .. cap |->
                                    IF i <= dim_z THEN tbl[i] ELSE img.data[i]]],
              oob |-> dim_z > cap]

\* The common body of astc_native_image_init_u8 / _f16 / _f32: the table is
\* reallocated (dim_z entries) only if absent or if dim_z changes, and the
\* loop writes entries 0 .. dim_z-1.  cap is the allocated length; a write at
\* or past it is out of bounds (oob).
ImageInit(imgp, data_type, T, dim_x, dim_y, dim_z, rgba) ==
    IF imgp = <<>> \/ rgba = NULL \/ dim_x = 0 \/ dim_y = 0 \/ dim_z = 0
    THEN [ret |-> ASTCENC_ERR_BAD_PARAM, invoked |-> FALSE, swz |-> NoSwz,
          img |-> IF imgp = <<>> THEN NoImg ELSE imgp[1], oob |-> FALSE]
    ELSE LET img == imgp[1]
             cap == IF img.data = <<>> \/ img.dim_z # dim_z THEN dim_z ELSE Len(img.data)
             tbl == SliceTable(rgba, T, dim_x, dim_y, dim_z)
         IN  [ret |-> ASTCENC_SUCCESS, invoked |-> FALSE, swz |-> NoSwz,
              img |-> [dim_x |-> dim_x, dim_y |-> dim_y, dim_z |-> dim_z,
                       data_type |-> data_type,
                       data |-> [i \in 1 .. cap |->
                                    IF i <= dim_z THEN tbl[i] ELSE img.data[i]]],
              oob |-> dim_z > cap]

astc_native_image_init_u8(r) ==
    ImageInit(r.img, ASTCENC_TYPE_U8, "uint8_t", r.dim_x, r.dim_y, r.dim_z, r.rgba)

astc_native_image_init_f16(r) ==
    ImageInit(r.img, ASTCENC_TYPE_F16, "uint16_t", r.dim_x, r.dim_y, r.dim_z, r.rgba)

astc_native_image_init_f32(r) ==
    ImageInit(r.img, ASTCENC_TYPE_F32, "float", r.dim_x, r.dim_y, r.dim_z, r.rgba)

---------------------------------------------------------------------------
(* The requests of SpecSlice: one call of one entry point, its arguments    *)
(* drawn from small sets that hold every early-return case, every element   *)
(* kind and the dimensions at which the size_t products wrap.               *)

\* Non-null buffer addresses.
Bases == {4, SizeMod \div 2}

DataTypes == {ASTCENC_TYPE_U8, ASTCENC_TYPE_F16, ASTCENC_TYPE_F32, 3, -1}

SwzPtrs == {<<>>, <<[r |-> 2, g |-> 1, b |-> 0, a |-> 5]>>}

CompressReqs ==
    [fn : {"compress_image_ex"}, ctxp : {NULL, 1}, data_type : DataTypes,
     dim_x : Dims, dim_y : Dims, dim_z : Dims, rgba : {NULL} \cup Bases,
     in_swz : SwzPtrs, out_data : {NULL, 1}, codec : CodecResults]

\* Output lengths around the size the output really needs and around that
\* size reduced modulo SizeMod.
OutLens(out_type, dim_x, dim_y, dim_z) ==
    LET es == CASE out_type = ASTCENC_TYPE_F16 -> 2
                [] out_type = ASTCENC_TYPE_F32 -> 4
                [] OTHER -> 1
        n  == dim_x * dim_y * dim_z * 4 * es
    IN  {0, SizeMod - 1} \cup ({n - 1, n, (n % SizeMod) - 1, n % SizeMod} \cap (0 .. SizeMod - 1))

DecompressReqs ==
    UNION {
        [fn : {"decompress_image_ex"}, ctxp : {NULL, 1}, data : {NULL, 1},
         out_type : {t}, dim_x : {x}, dim_y : {y}, dim_z : {z},
         out_rgba : {NULL} \cup Bases, out_len : OutLens(t, x, y, z),
         in_swz : SwzPtrs, codec : {ASTCENC_SUCCESS, "ASTCENC_ERR_BAD_CONTEXT"}]
        : t \in DataTypes, x \in Dims, y \in Dims, z \in Dims }

\* The selector values ASTC_NATIVE_SWZ_R .. ASTC_NATIVE_SWZ_Z.
Selectors == 0 .. 6

\* Every swizzle descriptor.
Swizzles == [r : Selectors, g : Selectors, b : Selectors, a : Selectors]

\* Calls of compress and decompress with each swizzle descriptor, their
\* other arguments valid.
SwizzleReqs ==
    [fn : {"compress_image_ex"}, ctxp : {1}, data_type : {ASTCENC_TYPE_U8},
     dim_x : {1}, dim_y : {2}, dim_z : {1}, rgba : {4},
     in_swz : {<<d>> : d \in Swizzles}, out_data : {1}, codec : {ASTCENC_SUCCESS}]
    \cup
    [fn : {"decompress_image_ex"}, ctxp : {1}, data : {1}, out_type : {ASTCENC_TYPE_F16},
     dim_x : {2}, dim_y : {1}, dim_z : {1}, out_rgba : {4}, out_len : {16},
     in_swz : {<<d>> : d \in Swizzles}, codec : {ASTCENC_SUCCESS}]

\* Calls of the fixed-kind entry points: no out_type and no swizzle.
DecompressFixedReqs ==
    UNION {
        [fn : {fn}, ctxp : {NULL, 1}, data : {NULL, 1},
         dim_x : {x}, dim_y : {y}, dim_z : {z},
         out_rgba : {NULL} \cup Bases,
         out_len : OutLens(IF fn = "decompress_image_rgba8" THEN ASTCENC_TYPE_U8
                           ELSE ASTCENC_TYPE_F32, x, y, z),
         codec : {ASTCENC_SUCCESS, "ASTCENC_ERR_BAD_CONTEXT"}]
        : fn \in {"decompress_image_rgba8", "decompress_image_rgba32f"},
          x \in Dims, y \in Dims, z \in Dims }

\* The images an init call can meet: fresh from a create call, or set up by
\* an earlier init call.
PriorImages ==
    {astc_native_image_create_u8, astc_native_image_create_f16, astc_native_image_create_f32}
    \cup { astc_native_image_init_u8(
               [img |-> <<astc_native_image_create_u8>>, dim_x |-> 1, dim_y |-> 2,
                dim_z |-> z, rgba |-> 4]).img : z \in Dims \ {0} }
    \cup { astc_native_image_init_f32(
               [img |-> <<astc_native_image_create_f16>>, dim_x |-> 2, dim_y |-> 1,
                dim_z |-> z, rgba |-> 4]).img : z \in Dims \ {0} }

ImageInitFns == {"image_init_u8", "image_init_f16", "image_init_f32"}

ImageInitReqs ==
    [fn : ImageInitFns, img : {<<>>} \cup {<<i>> : i \in PriorImages},
     dim_x : Dims, dim_y : Dims, dim_z : Dims, rgba : {NULL} \cup Bases]

Requests ==
    CompressReqs \cup DecompressReqs \cup SwizzleReqs \cup DecompressFixedReqs \cup ImageInitReqs

NoOut == [ret |-> "none"]

---------------------------------------------------------------------------
(* Idle values of the variables of the other specifications.               *)

Threads == {1, 2}

ProgIdle ==
    /\ ctxs = <<>>
    /\ tls = [s \in Threads |-> 0]
    /\ stack = [t \in Threads |-> <<>>]
    /\ sink = <<>>
    /\ registered = {}
    /\ last = [kind |-> "none"]

ContIdle ==
    /\ enc = [fn |-> "none"]
    /\ file = [size |-> 0, hdr |-> <<>>, written |-> FALSE]
    /\ dec = [err |-> "none"]

SliceIdle ==
    /\ call = [fn |-> "none"]
    /\ out = NoOut

---------------------------------------------------------------------------
(* SpecSlice.                                                              *)

InitSlice ==
    /\ call \in Requests
    /\ out = NoOut
    /\ ProgIdle
    /\ ContIdle

CompressImageEx ==
    /\ call.fn = "compress_image_ex"
    /\ out = NoOut
    /\ out' = astc_native_compress_image_ex(call)
    /\ UNCHANGED <<call, progVars, contVars>>

DecompressImageEx ==
    /\ call.fn = "decompress_image_ex"
    /\ out = NoOut
    /\ out' = astc_native_decompress_image_ex(call)
    /\ UNCHANGED <<call, progVars, contVars>>

DecompressImageRgba8 ==
    /\ call.fn = "decompress_image_rgba8"
    /\ out = NoOut
    /\ out' = astc_native_decompress_image_rgba8(call)
    /\ UNCHANGED <<call, progVars, contVars>>

DecompressImageRgba32f ==
    /\ call.fn = "decompress_image_rgba32f"
    /\ out = NoOut
    /\ out' = astc_native_decompress_image_rgba32f(call)
    /\ UNCHANGED <<call, progVars, contVars>>

ImageInitU8 ==
    /\ call.fn = "image_init_u8"
    /\ out = NoOut
    /\ out' = astc_native_image_init_u8(call)
    /\ UNCHANGED <<call, progVars, contVars>>

ImageInitF16 ==
    /\ call.fn = "image_init_f16"
    /\ out = NoOut
    /\ out' = astc_native_image_init_f16(call)
    /\ UNCHANGED <<call, progVars, contVars>>

ImageInitF32 ==
    /\ call.fn = "image_init_f32"
    /\ out = NoOut
    /\ out' = astc_native_image_init_f32(call)
    /\ UNCHANGED <<call, progVars, contVars>>

NextSlice ==
    \/ CompressImageEx
    \/ DecompressImageEx
    \/ DecompressImageRgba8
    \/ DecompressImageRgba32f
    \/ ImageInitU8
    \/ ImageInitF16
    \/ ImageInitF32

SpecSlice == InitSlice /\ [][NextSlice]_vars

---------------------------------------------------------------------------
(* Claims on the slice tables.                                             *)

\* The element kind and the base pointer a call of SpecSlice was given.
KindOf(r) ==
    CASE r.fn = "compress_image_ex"   -> r.data_type
      [] r.fn = "decompress_image_ex" -> r.out_type
      [] r.fn = "decompress_image_rgba8"   -> ASTCENC_TYPE_U8
      [] r.fn = "decompress_image_rgba32f" -> ASTCENC_TYPE_F32
      [] r.fn = "image_init_u8"       -> ASTCENC_TYPE_U8
      [] r.fn = "image_init_f16"      -> ASTCENC_TYPE_F16
      [] r.fn = "image_init_f32"      -> ASTCENC_TYPE_F32

DecompressFns == {"decompress_image_ex", "decompress_image_rgba8", "decompress_image_rgba32f"}

BaseOf(r) == IF r.fn \in DecompressFns THEN r.out_rgba ELSE r.rgba

ElementSize(kind) ==
    CASE kind = ASTCENC_TYPE_U8  -> 1
      [] kind = ASTCENC_TYPE_F16 -> 2
      [] kind = ASTCENC_TYPE_F32 -> 4

\* The call built a table: the codec was handed a view, or an init call
\* succeeded.
BuiltTable == out # NoOut /\ (out.invoked \/ (call.fn \in ImageInitFns /\ out.ret = ASTCENC_SUCCESS))

\* C1: the slice table built by compress, decompress and image_init_u8/f16/f32
\* has exactly depth entries, and entry z is the address
\* base + z*width*height*4*elementSize (an address of the machine, so modulo
\* SizeMod; the plain sum whenever the buffer lies inside the address space).
C1_SliceTable ==
    BuiltTable =>
        LET es   == ElementSize(KindOf(call))
            base == BaseOf(call)
            size == call.dim_x * call.dim_y * call.dim_z * 4 * es
        IN  /\ call.dim_x >= 1 /\ call.dim_y >= 1 /\ call.dim_z >= 1
            /\ out.img.dim_z = call.dim_z
            /\ Len(out.img.data) = call.dim_z
            /\ \A z \in 0 .. call.dim_z - 1 :
                  /\ out.img.data[z + 1]
                        = (base + z * call.dim_x * call.dim_y * 4 * es) % SizeMod
                  /\ base + size <= SizeMod
                        => out.img.data[z + 1] = base + z * call.dim_x * call.dim_y * 4 * es

\* C1 witness: a three-slice F16 view was handed to the codec by decompress,
\* its last slice 2*width*height*4*2 bytes past the base.
C1_Witness ==
    /\ out # NoOut /\ call.fn = "decompress_image_ex" /\ out.invoked
    /\ call.out_type = ASTCENC_TYPE_F16 /\ call.dim_z = 3 /\ call.dim_x = 2 /\ call.dim_y = 1
    /\ out.img.data = <<call.out_rgba, call.out_rgba + 16, call.out_rgba + 32>>

---------------------------------------------------------------------------
(* Progress dispatch: contexts, the thread-local slot, compress calls.     *)

MaxCtx == 2

\* The compress calls in progress at one time, over all threads.
MaxActive == 2

\* enable_progress_callback is an int: any non-zero value enables.
EnableValues == {0, 2}

\* The handles each thread passes as progress_handle (0: none).
HandlesOf(t) == IF t = 1 THEN {0, 1, 2} ELSE {0, 3}

ProgressValues == {25, 100}

SlotOfGlobal(t) == 1

\* static thread_local uintptr_t astc_native_tls_progress_handle: the slot a
\* thread reads and writes is its own.
SlotOf(t) == t

ProgressCallbackAlways(enable_progress_callback) == "astc_native_progress_callback"

\* cfg.progress_callback = enable_progress_callback ? trampoline : nullptr.
ProgressCallbackFor(enable_progress_callback) ==
    IF enable_progress_callback # 0 THEN "astc_native_progress_callback" ELSE "nullptr"

\* astc_native_context_alloc_from_data: alloc is the result of
\* astcenc_context_alloc.  ctx holds the context stored through out_ctx, if
\* any; its enable field is a history of the argument.
\* A creation call gives its return value, the context it allocated (ctx,
\* <<>> if none) and what it stored through out_ctx (stored: <<>> if nothing,
\* <<"ctx">> for the new context, <<"nullptr">> for a null pointer).
context_create_stores_before_check(out_ctx, config_init, alloc) ==
    IF out_ctx = NULL
    THEN [ret |-> ASTCENC_ERR_BAD_PARAM, ctx |-> <<>>, stored |-> <<>>]
    ELSE IF config_init # ASTCENC_SUCCESS
    THEN [ret |-> config_init, ctx |-> <<>>, stored |-> <<>>]
    ELSE IF alloc # ASTCENC_SUCCESS
    THEN [ret |-> alloc, ctx |-> <<>>, stored |-> <<"nullptr">>]
    ELSE [ret |-> ASTCENC_SUCCESS, stored |-> <<"ctx">>,
          ctx |-> <<[progress_callback |-> "nullptr", enable |-> 0]>>]

\* astc_native_context_create; config_init and alloc are the results of
\* astcenc_config_init and astcenc_context_alloc.  The configuration the
\* codec initialises has no progress callback.
astc_native_context_create(out_ctx, config_init, alloc) ==
    IF out_ctx = NULL
    THEN [ret |-> ASTCENC_ERR_BAD_PARAM, ctx |-> <<>>, stored |-> <<>>]
    ELSE IF config_init # ASTCENC_SUCCESS
    THEN [ret |-> config_init, ctx |-> <<>>, stored |-> <<>>]
    ELSE IF alloc # ASTCENC_SUCCESS
    THEN [ret |-> alloc, ctx |-> <<>>, stored |-> <<>>]
    ELSE [ret |-> ASTCENC_SUCCESS, stored |-> <<"ctx">>,
          ctx |-> <<[progress_callback |-> "nullptr", enable |-> 0]>>]

astc_native_context_alloc_from_data(in_cfg, enable_progress_callback, out_ctx, alloc) ==
    IF in_cfg = NULL \/ out_ctx = NULL
    THEN [ret |-> ASTCENC_ERR_BAD_PARAM, ctx |-> <<>>, stored |-> <<>>]
    ELSE IF alloc # ASTCENC_SUCCESS
    THEN [ret |-> alloc, ctx |-> <<>>, stored |-> <<>>]
    ELSE [ret |-> ASTCENC_SUCCESS, stored |-> <<"ctx">>,
          ctx |-> <<[progress_callback |-> ProgressCallbackFor(enable_progress_callback),
                     enable |-> enable_progress_callback]>>]

ProgressTrampolineUnchecked(handle, progress) ==
    <<[handle |-> handle, progress |-> progress]>>

\* astc_native_progress_callback(progress) on a thread whose slot holds
\* handle: the calls of astc_native_go_progress it makes.
astc_native_progress_callback(handle, progress) ==
    IF handle # 0
    THEN <<[handle |-> handle, progress |-> progress]>>
    ELSE <<>>

RegisterHandleForgetOld(slot_value, progress_handle) ==
    [old_handle |-> 0, slot |-> progress_handle]

\* old_handle = astc_native_tls_progress_handle;
\* astc_native_tls_progress_handle = progress_handle.
RegisterHandle(slot_value, progress_handle) ==
    [old_handle |-> slot_value, slot |-> progress_handle]

RestoreHandleOnSuccess(old_handle, slot_value, err) ==
    IF err = ASTCENC_SUCCESS THEN old_handle ELSE slot_value

\* astc_native_tls_progress_handle = old_handle, after the codec returned
\* err: the slot afterwards.
RestoreHandle(old_handle, slot_value, err) == old_handle

\* astc_native_compress_image (persistent image, no handle): whether the
\* codec is invoked.
astc_native_compress_image(ctxp, imgp, out_data, codec) ==
    IF ctxp = NULL \/ imgp = NULL \/ out_data = NULL
    THEN [ret |-> ASTCENC_ERR_BAD_PARAM, invoked |-> FALSE]
    ELSE [ret |-> codec, invoked |-> TRUE]

\* The argument cases of a compress call in SpecProgress.
ArgCases == {"ok", "no_ctx", "no_rgba", "no_out", "zero_dim", "bad_type"}

CompressArgs(case, c, h) ==
    [fn |-> "compress_image_ex",
     ctxp |-> IF case = "no_ctx" THEN NULL ELSE c,
     data_type |-> IF case = "bad_type" THEN 3 ELSE ASTCENC_TYPE_F16,
     dim_x |-> 1, dim_y |-> 1, dim_z |-> IF case = "zero_dim" THEN 0 ELSE 2,
     rgba |-> IF case = "no_rgba" THEN NULL ELSE 4,
     in_swz |-> <<>>,
     out_data |-> IF case = "no_out" THEN NULL ELSE 1,
     codec |-> ASTCENC_SUCCESS,
     progress_handle |-> h]

Top(stk) == stk[Len(stk)]

Pop(stk) == SubSeq(stk, 1, Len(stk) - 1)

Depth == Len(stack[1]) + Len(stack[2])

\* A thread can enter the bridge when it runs no call, or from inside the
\* sink (astc_native_go_progress) of a call it runs.
CanCall(t) ==
    /\ Depth < MaxActive
    /\ IF stack[t] = <<>> THEN TRUE ELSE Top(stack[t]).pc = "sink"

\* (history) The handle of the innermost compress_image_ex call of a stack.
InnermostHandle(stk) ==
    LET ex == SelectSeq(stk, LAMBDA f : f.fn = "compress_image_ex")
    IN  IF ex = <<>> THEN 0 ELSE ex[Len(ex)].progress_handle

\* (history) The stack a call f returns to: its caller is marked once a
\* nested call that had registered another handle has returned to it.
Resumed(stk, f) ==
    IF stk # <<>> /\ f.fn = "compress_image_ex"
       /\ f.progress_handle # 0 /\ f.progress_handle # f.pre
    THEN [stk EXCEPT ![Len(stk)].resumed = TRUE]
    ELSE stk

InitProgress ==
    /\ ProgIdle
    /\ SliceIdle
    /\ ContIdle

\* The caller's handle variable after a creation call r: before holds what
\* it held before the call, the new context is the next entry of ctxs.
HandleAfter(r, before) ==
    IF r.stored = <<>> THEN before
    ELSE IF r.stored = <<"ctx">> THEN Len(ctxs) + 1
    ELSE NULL

\* What a creation call leaves behind: the context if one was allocated, and
\* the call with the caller's handle variable before and after it.
Created(fn, r, out_ctx, before) ==
    /\ ctxs' = ctxs \o r.ctx
    /\ sink' = <<>>
    /\ last' = [kind |-> "alloc", fn |-> fn, ret |-> r.ret, out_ctx |-> out_ctx,
                before |-> before, after |-> HandleAfter(r, before)]
    /\ UNCHANGED <<tls, stack, registered, sliceVars, contVars>>

ContextAllocFromData(in_cfg, enable, out_ctx, alloc) ==
    /\ Len(ctxs) < MaxCtx
    /\ \E before \in 0 .. Len(ctxs) :
          Created("context_alloc_from_data",
                  astc_native_context_alloc_from_data(in_cfg, enable, out_ctx, alloc),
                  out_ctx, before)

ContextCreate(out_ctx, config_init, alloc) ==
    /\ Len(ctxs) < MaxCtx
    /\ \E before \in 0 .. Len(ctxs) :
          Created("context_create",
                  astc_native_context_create(out_ctx, config_init, alloc),
                  out_ctx, before)

\* astc_native_compress_image_ex on thread t, up to its early return or to
\* the call of astcenc_compress_image.
CompressExCall(t, case, c, h) ==
    LET a == CompressArgs(case, c, h)
        v == astc_native_compress_image_ex(a)
        s == SlotOf(t)
    IN  /\ CanCall(t)
        /\ IF v.invoked
           THEN LET reg == RegisterHandle(tls[s], a.progress_handle)
                IN  /\ tls' = [tls EXCEPT ![s] = reg.slot]
                    /\ stack' = [stack EXCEPT ![t] = Append(@,
                          [fn |-> a.fn, ctx |-> a.ctxp, args |-> a,
                           progress_handle |-> a.progress_handle,
                           old_handle |-> reg.old_handle, pre |-> tls[s], pc |-> "codec",
                           resumed |-> FALSE])]
                    /\ registered' = IF a.progress_handle # 0
                                     THEN registered \cup {t} ELSE registered
                    /\ last' = [kind |-> "call", thread |-> t]
           ELSE /\ UNCHANGED <<tls, stack, registered>>
                /\ last' = [kind |-> "return", thread |-> t, ret |-> v.ret, path |-> "early",
                            handle |-> a.progress_handle, pre |-> tls[s], post |-> tls'[s]]
        /\ sink' = <<>>
        /\ UNCHANGED <<ctxs, sliceVars, contVars>>

\* astc_native_compress_image on thread t: no handle is registered.
CompressCall(t, ctxp) ==
    LET v == astc_native_compress_image(ctxp, 1, 1, ASTCENC_SUCCESS)
        s == SlotOf(t)
    IN  /\ CanCall(t)
        /\ IF v.invoked
           THEN /\ stack' = [stack EXCEPT ![t] = Append(@,
                      [fn |-> "compress_image", ctx |-> ctxp, args |-> <<>>,
                       progress_handle |-> 0,
                       old_handle |-> 0, pre |-> tls[s], pc |-> "codec", resumed |-> FALSE])]
                /\ last' = [kind |-> "call", thread |-> t]
           ELSE /\ UNCHANGED stack
                /\ last' = [kind |-> "return", thread |-> t, ret |-> v.ret, path |-> "early",
                            handle |-> 0, pre |-> tls[s], post |-> tls[s]]
        /\ sink' = <<>>
        /\ UNCHANGED <<tls, ctxs, registered, sliceVars, contVars>>

\* The codec, running the innermost call of thread t, reaches a progress
\* point: it calls the context's progress_callback if there is one.
CodecProgress(t, progress) ==
    /\ stack[t] # <<>>
    /\ stack[t][Len(stack[t])].pc = "codec"
    /\ LET f == Top(stack[t])
           calls == IF ctxs[f.ctx].progress_callback = "astc_native_progress_callback"
                    THEN astc_native_progress_callback(tls[SlotOf(t)], progress)
                    ELSE <<>>
       IN  /\ last' = [kind |-> "event", thread |-> t, ctx |-> f.ctx, progress |-> progress,
                       expect |-> InnermostHandle(stack[t])]
           /\ sink' = calls
           /\ stack' = IF calls = <<>> THEN stack
                       ELSE [stack EXCEPT ![t][Len(stack[t])].pc = "sink"]
    /\ UNCHANGED <<ctxs, tls, registered, sliceVars, contVars>>

\* astc_native_go_progress returns to the codec.
SinkReturn(t) ==
    /\ stack[t] # <<>>
    /\ stack[t][Len(stack[t])].pc = "sink"
    /\ stack' = [stack EXCEPT ![t][Len(stack[t])].pc = "codec"]
    /\ sink' = <<>>
    /\ last' = [kind |-> "sinkreturn", thread |-> t]
    /\ UNCHANGED <<ctxs, tls, registered, sliceVars, contVars>>

\* The codec returns err to the innermost call of thread t, which returns.
CodecReturn(t, err) ==
    /\ stack[t] # <<>>
    /\ stack[t][Len(stack[t])].pc = "codec"
    /\ LET f == Top(stack[t])
           s == SlotOf(t)
       IN  /\ tls' = IF f.fn = "compress_image_ex"
                     THEN [tls EXCEPT ![s] = RestoreHandle(f.old_handle, tls[s], err)]
                     ELSE tls
           /\ last' =
                 [kind |-> "return", thread |-> t,
                  ret |-> IF f.fn = "compress_image_ex"
                          THEN astc_native_compress_image_ex([f.args EXCEPT !.codec = err]).ret
                          ELSE astc_native_compress_image(f.ctx, 1, 1, err).ret,
                  path |-> "codec", handle |-> f.progress_handle,
                  pre |-> f.pre, post |-> tls'[s]]
           /\ stack' = [stack EXCEPT ![t] = Resumed(Pop(@), f)]
    /\ sink' = <<>>
    /\ UNCHANGED <<ctxs, registered, sliceVars, contVars>>

CtxPtrs == {NULL} \cup (1 .. Len(ctxs))

NextProgress ==
    \/ \E in_cfg \in {NULL, 1}, e \in EnableValues, out_ctx \in {NULL, 1},
          alloc \in {ASTCENC_SUCCESS, ASTCENC_ERR_OUT_OF_MEM} :
            ContextAllocFromData(in_cfg, e, out_ctx, alloc)
    \/ \E out_ctx \in {NULL, 1}, config_init \in {ASTCENC_SUCCESS, "ASTCENC_ERR_BAD_BLOCK_SIZE"},
          alloc \in {ASTCENC_SUCCESS, ASTCENC_ERR_OUT_OF_MEM} :
            ContextCreate(out_ctx, config_init, alloc)
    \/ \E t \in Threads, case \in ArgCases, c \in 1 .. Len(ctxs) :
          \E h \in HandlesOf(t) : CompressExCall(t, case, c, h)
    \/ \E t \in Threads, c \in CtxPtrs : CompressCall(t, c)
    \/ \E t \in Threads, p \in ProgressValues : CodecProgress(t, p)
    \/ \E t \in Threads : SinkReturn(t)
    \/ \E t \in Threads, err \in {ASTCENC_SUCCESS, "ASTCENC_ERR_BAD_CONTEXT"} :
            CodecReturn(t, err)

SpecProgress == InitProgress /\ [][NextProgress]_vars

---------------------------------------------------------------------------
(* Claims on the progress dispatch.                                        *)

Trampoline == "astc_native_progress_callback"

\* C2: an event raised during a compress call that registered H # 0 on its
\* thread (the innermost such call) makes exactly one call of the sink, with H
\* and the progress value; a call that went through the codec returns with
\* the slot at its value from before the call (so after a nested call the
\* outer handle is back); a thread that runs no call has its slot at 0.
C2_DeliverAndRestore ==
    /\ (last.kind = "event" /\ ctxs[last.ctx].enable # 0 /\ last.expect # 0)
          => sink = <<[handle |-> last.expect, progress |-> last.progress]>>
    /\ (last.kind = "return" /\ last.path = "codec") => last.post = last.pre
    /\ \A t \in Threads : stack[t] = <<>> => tls[SlotOf(t)] = 0

\* C2 witness: outer handle A; a nested call with another handle B has
\* returned; the event raised afterwards is delivered with A.
C2_Witness ==
    /\ last.kind = "event"
    /\ Len(stack[last.thread]) = 1
    /\ stack[last.thread][1].resumed
    /\ stack[last.thread][1].progress_handle = 1
    /\ sink = <<[handle |-> 1, progress |-> last.progress]>>

\* C3: the slot is one per thread: each thread's slot holds the handle of the
\* innermost compress_image_ex call active on that thread (0 if none),
\* whatever the other threads register or restore, and a delivered event
\* carries that handle, one the thread itself registered.
C3_PerThreadSlot ==
    /\ \A t \in Threads : tls[SlotOf(t)] = InnermostHandle(stack[t])
    /\ last.kind = "event" =>
          \A i \in 1 .. Len(sink) :
              /\ sink[i].handle = InnermostHandle(stack[last.thread])
              /\ sink[i].handle \in HandlesOf(last.thread) \ {0}

\* C3 witness: both threads run a call with a handle of their own, on the
\* same context, and an event on thread 2 is delivered with its handle.
C3_Witness ==
    /\ last.kind = "event" /\ last.thread = 2
    /\ sink = <<[handle |-> 3, progress |-> last.progress]>>
    /\ Len(stack[1]) = 1 /\ stack[1][1].progress_handle = 2 /\ tls[SlotOf(1)] = 2
    /\ stack[1][1].ctx = stack[2][1].ctx

\* C4: whatever a compress call returns and on whatever path (early return
\* or after the codec), the slot of its thread holds afterwards what it held
\* before the call.
C4_RestoredOnEveryExit ==
    last.kind = "return" => last.post = last.pre

\* C4 witness: a nested call (slot at the outer handle) returns the codec's
\* error after having registered another handle.
C4_Witness ==
    /\ last.kind = "return" /\ last.path = "codec"
    /\ last.ret = "ASTCENC_ERR_BAD_CONTEXT"
    /\ last.pre # 0 /\ last.handle # last.pre /\ last.handle # 0

\* C4 second witness state: an early InvalidArgument return inside a sink.
C4_EarlyReturnReached ==
    /\ last.kind = "return" /\ last.path = "early"
    /\ last.ret = ASTCENC_ERR_BAD_PARAM /\ last.pre # 0

\* C5: a thread on which no handle was ever registered has its slot at 0 (all
\* slots start at 0) and an event on it makes no call of the sink; the
\* trampoline calls the sink if and only if the slot of its thread is not 0,
\* and then once, with the slot's value and the progress value.
C5_NoHandleNoOp ==
    /\ \A t \in Threads : t \notin registered => tls[SlotOf(t)] = 0
    /\ (last.kind = "event" /\ last.thread \notin registered) => sink = <<>>
    /\ (last.kind = "event" /\ ctxs[last.ctx].progress_callback = Trampoline)
          => sink = IF tls[SlotOf(last.thread)] # 0
                    THEN <<[handle |-> tls[SlotOf(last.thread)], progress |-> last.progress]>>
                    ELSE <<>>

\* C5 witness: the trampoline ran on a thread that never registered a handle.
C5_Witness ==
    /\ last.kind = "event" /\ last.thread \notin registered
    /\ ctxs[last.ctx].progress_callback = Trampoline
    /\ sink = <<>>

\* C6: a context has the trampoline as its progress callback if and only if
\* it was created with enable_progress_callback # 0, and a progress point of
\* a call on a context created with 0 makes no call of the sink.
C6_ProgressOnlyIfEnabled ==
    /\ \A c \in 1 .. Len(ctxs) :
          ctxs[c].progress_callback = Trampoline <=> ctxs[c].enable # 0
    /\ (last.kind = "event" /\ ctxs[last.ctx].enable = 0) => sink = <<>>

\* C6 witness: a progress point on a context created with 0, its thread's
\* slot holding a registered handle, and one context created with non-zero.
C6_Witness ==
    /\ last.kind = "event" /\ ctxs[last.ctx].enable = 0
    /\ tls[SlotOf(last.thread)] # 0
    /\ sink = <<>>
    /\ \E c \in 1 .. Len(ctxs) : ctxs[c].progress_callback = Trampoline

---------------------------------------------------------------------------
(* The container of the benchmark harness.  A file is its size in bytes and *)
(* its first 16 bytes at most (hdr); the block data that follows is opaque. *)
(* An int is a TLA+ integer; the inputs drawn keep every int expression of  *)
(* the harness, and every size_t expression of encode_main, inside the      *)
(* range of int.  The size_t expressions of decode_main are computed on     *)
(* 8-digit base-256 numbers, that is modulo 2^64.                           *)

\* static_cast<uint8_t>(v).
U8(v) == v % 256

write_u24_le_msb_first(v) == <<U8(v \div 65536), U8(v \div 256), U8(v)>>

\* write_u24_le(p, v): the three bytes stored at p[0], p[1], p[2].
write_u24_le(v) == <<U8(v), U8(v \div 256), U8(v \div 65536)>>

\* read_u24_le(p) of the three bytes p.
read_u24_le(p) == p[1] + p[2] * 256 + p[3] * 65536

\* The 16 bytes write_astc_header stores.
write_astc_header(bx, by, bz, sx, sy, sz) ==
    <<19, 171, 161, 92, U8(bx), U8(by), U8(bz)>>
        \o write_u24_le(sx) \o write_u24_le(sy) \o write_u24_le(sz)

\* The block shapes astcenc_config_init accepts (each dimension 1..12).
astcenc_config_init_ok(bx, by, bz) ==
    bx \in 1 .. 12 /\ by \in 1 .. 12 /\ bz \in 1 .. 12

\* (s + b - 1) / b of two positive ints.
BlocksAlong(s, b) == (s + b - 1) \div b

NoFile == [size |-> 0, hdr |-> <<>>, written |-> FALSE]

\* encode_main for -w w -h h -d d -block bx x by x bz -out path (iters > 0):
\* the message of the exception it ends with ("ok" if none) and the file it
\* writes.  compress is the result of astcenc_compress_image.
encode_main(w, h, d, bx, by, bz, compress) ==
    IF w <= 0 \/ h <= 0 \/ d <= 0
    THEN [err |-> "invalid dimensions/iters", file |-> NoFile]
    ELSE IF ~astcenc_config_init_ok(bx, by, bz)
    THEN [err |-> "astcenc_config_init failed", file |-> NoFile]
    ELSE LET blocks_x == BlocksAlong(w, bx)
             blocks_y == BlocksAlong(h, by)
             blocks_z == BlocksAlong(d, bz)
             total_blocks == blocks_x * blocks_y * blocks_z
             out_len == total_blocks * 16
         IN  IF compress # ASTCENC_SUCCESS
             THEN [err |-> "astcenc_compress_image failed", file |-> NoFile]
             ELSE [err |-> "ok",
                   file |-> [size |-> 16 + out_len,
                             hdr |-> write_astc_header(bx, by, bz, w, h, d),
                             written |-> TRUE]]

NoHeader == [bx |-> 0, by |-> 0, bz |-> 0, sx |-> 0, sy |-> 0, sz |-> 0]

\* A size_t and an exact natural number are sequences of base-256 digits,
\* least significant first: 8 digits for a size_t, 12 for an exact number.
RECURSIVE ToBytes(_, _)
ToBytes(v, n) == IF n = 0 THEN <<>> ELSE <<v % 256>> \o ToBytes(v \div 256, n - 1)

RECURSIVE Carry(_, _)
Carry(cols, c) ==
    IF cols = <<>> THEN <<>>
    ELSE <<(cols[1] + c) % 256>> \o Carry(Tail(cols), (cols[1] + c) \div 256)

RECURSIVE ColumnSum(_, _, _, _)
ColumnSum(a, b, k, i) ==
    IF i = 0 THEN 0 ELSE a[i] * b[k + 1 - i] + ColumnSum(a, b, k, i - 1)

\* a * b and a + b of two numbers of n digits, modulo 256^n.
MulBytes(a, b) == Carry([k \in 1 .. Len(a) |-> ColumnSum(a, b, k, k)], 0)

AddBytes(a, b) == Carry([k \in 1 .. Len(a) |-> a[k] + b[k]], 0)

RECURSIVE LessBytes(_, _)
LessBytes(a, b) ==
    IF a = <<>> THEN FALSE
    ELSE LET n == Len(a)
         IN  IF a[n] # b[n] THEN a[n] < b[n]
             ELSE LessBytes(SubSeq(a, 1, n - 1), SubSeq(b, 1, n - 1))

\* static_cast<size_t>(v) of a non-negative int.
Sz(v) == ToBytes(v, 8)

\* size_t total_blocks of decode_main and encode_main.
TotalBlocks(bx, by, bz, sx, sy, sz) ==
    LET blocks_x == BlocksAlong(sx, bx)
        blocks_y == BlocksAlong(sy, by)
        blocks_z == BlocksAlong(sz, bz)
    IN  MulBytes(MulBytes(Sz(blocks_x), Sz(blocks_y)), Sz(blocks_z))

\* An exception thrown by decode_main; divisors are the block dimensions it
\* has divided by so far.
DecodeFailed(msg, h, divisors) ==
    [err |-> msg, hdr |-> h, divisors |-> divisors, blocks_off |-> 0, blocks_len |-> Sz(0)]

\* The fields decode_main reads from the 16 header bytes.
ReadHeader(hdr) ==
    [bx |-> hdr[5], by |-> hdr[6], bz |-> hdr[7],
     sx |-> read_u24_le(SubSeq(hdr, 8, 10)),
     sy |-> read_u24_le(SubSeq(hdr, 11, 13)),
     sz |-> read_u24_le(SubSeq(hdr, 14, 16))]

decode_body_sizes_only(f) ==
    LET h == ReadHeader(f.hdr)
    IN  IF h.sx <= 0 \/ h.sy <= 0 \/ h.sz <= 0
        THEN DecodeFailed("invalid ASTC header", h, <<>>)
        ELSE DecodeFailed("truncated ASTC data", h, <<h.bx, h.by, h.bz>>)

\* decode_main after the length and magic checks.
decode_body(f) ==
    LET h == ReadHeader(f.hdr)
    IN  IF h.bx <= 0 \/ h.by <= 0 \/ h.bz <= 0 \/ h.sx <= 0 \/ h.sy <= 0 \/ h.sz <= 0
        THEN DecodeFailed("invalid ASTC header", h, <<>>)
        ELSE LET total_blocks == TotalBlocks(h.bx, h.by, h.bz, h.sx, h.sy, h.sz)
                 need == AddBytes(Sz(16), MulBytes(total_blocks, Sz(16)))
                 divisors == <<h.bx, h.by, h.bz>>
             IN  IF LessBytes(Sz(f.size), need)
                 THEN DecodeFailed("truncated ASTC data", h, divisors)
                 ELSE IF ~astcenc_config_init_ok(h.bx, h.by, h.bz)
                 THEN DecodeFailed("astcenc_config_init failed", h, divisors)
                 ELSE [err |-> "ok", hdr |-> h, divisors |-> divisors, blocks_off |-> 16,
                       blocks_len |-> MulBytes(total_blocks, Sz(16))]

MagicOk(hdr) == hdr[1] = 19 /\ hdr[2] = 171 /\ hdr[3] = 161 /\ hdr[4] = 92

decode_main_magic_first(f) ==
    IF \E i \in 1 .. Min(4, Len(f.hdr)) : f.hdr[i] # <<19, 171, 161, 92>>[i]
    THEN DecodeFailed("invalid ASTC magic", NoHeader, <<>>)
    ELSE IF f.size < 16
    THEN DecodeFailed("input too small", NoHeader, <<>>)
    ELSE decode_body(f)

\* decode_main on the file f (-in given, iters > 0, default -out).
decode_main(f) ==
    IF f.size < 16
    THEN DecodeFailed("input too small", NoHeader, <<>>)
    ELSE IF ~MagicOk(f.hdr)
    THEN DecodeFailed("invalid ASTC magic", NoHeader, <<>>)
    ELSE decode_body(f)

---------------------------------------------------------------------------
(* SpecContainer: encode_main (or write_astc_header alone) writes a file,   *)
(* the file may be cut or have a magic byte changed, decode_main reads it.  *)

\* -block arguments given to encode_main: ASTC footprints and shapes the codec
\* rejects.
BlockShapes ==
    { <<4, 4, 1>>, <<12, 12, 1>>, <<6, 6, 6>>, <<3, 3, 3>>, <<5, 4, 1>>,
      <<13, 13, 1>>, <<256, 4, 1>>, <<4, 300, 1>>, <<4, 4, 511>>, <<0, 4, 1>> }

\* Block dimensions given to write_astc_header alone.
HeaderShapes == BlockShapes \cup { <<1, 255, 13>>, <<255, 255, 255>>, <<200, 3, 1>> }

SmallSizes == {0, 1, 8, 12, 255}

BigSizes == {256, 65535, 65536, 2 ^ 24 - 1, 2 ^ 24, 2 ^ 24 + 1, 2 ^ 24 + 12, -1}

ImageSizes ==
    (SmallSizes \X SmallSizes \X SmallSizes)
    \cup UNION { {<<b, 1, 1>>, <<1, b, 1>>, <<1, 1, b>>} : b \in BigSizes }

CutLengths == {0, 1, 3, 4, 15, 16, 17, 111}

EncRequest(fn, b, s) ==
    [fn |-> fn, bx |-> b[1], by |-> b[2], bz |-> b[3],
     w |-> s[1], h |-> s[2], d |-> s[3], err |-> "none"]

\* Sizes given to write_astc_header alone: also those whose block count does
\* not fit a size_t.
HeaderSizes ==
    ImageSizes
    \cup { <<2 ^ 23, 2 ^ 23, 2 ^ 18>>, <<2 ^ 23, 2 ^ 23, 2 ^ 18 - 1>>,
           <<2 ^ 24 - 1, 2 ^ 24 - 1, 2 ^ 24 - 1>>, <<2 ^ 24 - 1, 2 ^ 24 - 1, 65536>>,
           <<65536, 65536, 255>> }

EncInputs ==
    { EncRequest("encode_main", b, s) : b \in BlockShapes, s \in ImageSizes }
    \cup { EncRequest("write_astc_header", b, s) : b \in HeaderShapes, s \in HeaderSizes }

InitContainer ==
    /\ enc \in EncInputs
    /\ file = NoFile
    /\ dec = [err |-> "none"]
    /\ ProgIdle
    /\ SliceIdle

EncodeMain(compress) ==
    /\ enc.fn = "encode_main" /\ enc.err = "none"
    /\ LET r == encode_main(enc.w, enc.h, enc.d, enc.bx, enc.by, enc.bz, compress)
       IN  /\ enc' = [enc EXCEPT !.err = r.err]
           /\ file' = r.file
    /\ UNCHANGED <<dec, sliceVars, progVars>>

\* write_astc_header applied to a 16-byte buffer, which becomes the file.
WriteAstcHeader ==
    /\ enc.fn = "write_astc_header" /\ enc.err = "none"
    /\ enc' = [enc EXCEPT !.err = "ok"]
    /\ file' = [size |-> 16, written |-> TRUE,
                hdr |-> write_astc_header(enc.bx, enc.by, enc.bz, enc.w, enc.h, enc.d)]
    /\ UNCHANGED <<dec, sliceVars, progVars>>

\* The file is cut to n bytes before it is read.
Truncate(n) ==
    /\ file.written /\ dec.err = "none"
    /\ n < file.size
    /\ file' = [file EXCEPT !.size = n, !.hdr = SubSeq(@, 1, Min(n, 16))]
    /\ UNCHANGED <<enc, dec, sliceVars, progVars>>

\* Byte i (one of the four magic bytes) of the file is changed.
Corrupt(i) ==
    /\ file.written /\ dec.err = "none"
    /\ i <= Len(file.hdr)
    /\ file.hdr[i] = <<19, 171, 161, 92>>[i]
    /\ file' = [file EXCEPT !.hdr[i] = (@ + 1) % 256]
    /\ UNCHANGED <<enc, dec, sliceVars, progVars>>

DecodeMain ==
    /\ file.written /\ dec.err = "none"
    /\ dec' = decode_main(file)
    /\ UNCHANGED <<enc, file, sliceVars, progVars>>

NextContainer ==
    \/ \E compress \in {ASTCENC_SUCCESS, "ASTCENC_ERR_BAD_CONTEXT"} : EncodeMain(compress)
    \/ WriteAstcHeader
    \/ \E n \in CutLengths : Truncate(n)
    \/ \E i \in 1 .. 4 : Corrupt(i)
    \/ DecodeMain

SpecContainer == InitContainer /\ [][NextContainer]_vars

---------------------------------------------------------------------------
(* Claims about the container.                                              *)

\* The header fields of the request enc, as the reader names them.
Requested ==
    [bx |-> enc.bx, by |-> enc.by, bz |-> enc.bz, sx |-> enc.w, sy |-> enc.h, sz |-> enc.d]

BlockInRange == enc.bx \in 1 .. 255 /\ enc.by \in 1 .. 255 /\ enc.bz \in 1 .. 255

ImageInRange ==
    enc.w \in 1 .. 2 ^ 24 - 1 /\ enc.h \in 1 .. 2 ^ 24 - 1 /\ enc.d \in 1 .. 2 ^ 24 - 1

\* decode_main got as far as reading the header fields.
HeaderRead == dec.err \notin {"none", "input too small", "invalid ASTC magic"}

\* C7: for block dimensions in 1..255 and image dimensions in 1..2^24-1, the
\* reader of decode_main returns from the 16 bytes of write_astc_header the
\* block shape, width, height and depth that were written.
C7_HeaderRoundTrip ==
    (enc.err = "ok" /\ BlockInRange /\ ImageInRange)
        => /\ (Len(file.hdr) = 16 /\ MagicOk(file.hdr)) => ReadHeader(file.hdr) = Requested
           /\ HeaderRead => dec.hdr = Requested

C7_Witness ==
    /\ enc.fn = "write_astc_header" /\ enc.err = "ok"
    /\ enc.bx = 255 /\ enc.w = 2 ^ 24 - 1 /\ enc.h = 1 /\ enc.d = 1
    /\ HeaderRead
    /\ dec.hdr.bx = 255 /\ dec.hdr.sx = 2 ^ 24 - 1 /\ dec.hdr.sy = 1

\* C8 (as the spec states it): a run of the encoder with a dimension beyond
\* the range of its header field (block dimension > 255, image dimension
\* > 2^24-1) ends with an error and writes no file.
C8_OutOfRangeRejected ==
    (enc.fn = "encode_main" /\ enc.err # "none"
        /\ (enc.bx > 255 \/ enc.by > 255 \/ enc.bz > 255
            \/ enc.w > 2 ^ 24 - 1 \/ enc.h > 2 ^ 24 - 1 \/ enc.d > 2 ^ 24 - 1))
        => (enc.err # "ok" /\ ~file.written)

\* The state the encoder reaches on -w 16777216 -h 1 -d 1 -block 4x4x1: a
\* file whose width field is 00 00 00.
C8_TruncatedHeaderWritten ==
    /\ enc.fn = "encode_main" /\ enc.err = "ok" /\ enc.w = 2 ^ 24
    /\ file.written /\ Len(file.hdr) = 16
    /\ SubSeq(file.hdr, 8, 10) = <<0, 0, 0>>

\* The layout of a container for the request enc.
Layout(f) ==
    /\ f.written
    /\ Len(f.hdr) = 16
    /\ \A i \in 1 .. 16 : f.hdr[i] \in 0 .. 255
    /\ SubSeq(f.hdr, 1, 4) = <<19, 171, 161, 92>>
    /\ f.hdr[5] = enc.bx /\ f.hdr[6] = enc.by /\ f.hdr[7] = enc.bz
    /\ f.hdr[8] + 256 * f.hdr[9] + 65536 * f.hdr[10] = enc.w
    /\ f.hdr[11] + 256 * f.hdr[12] + 65536 * f.hdr[13] = enc.h
    /\ f.hdr[14] + 256 * f.hdr[15] + 65536 * f.hdr[16] = enc.d
    /\ f.size = 16 + 16 * (BlocksAlong(enc.w, enc.bx) * BlocksAlong(enc.h, enc.by)
                              * BlocksAlong(enc.d, enc.bz))

EncoderWrote == enc.fn = "encode_main" /\ enc.err = "none" /\ enc'.err = "ok"

\* C9 (as the spec states it): every file the encoder writes is the magic
\* 13 AB A1 5C, the block dimensions in bytes 4..6, width, height and depth
\* as 3-byte little-endian integers, and blockCount blocks of 16 bytes.
C9_ContainerLayout == [][EncoderWrote => Layout(file')]_vars

\* The same layout for requests whose image dimensions fit 24 bits.
C9_LayoutWithin24Bits == [][(EncoderWrote /\ ImageInRange) => Layout(file')]_vars

\* The 4x4x1 encoding of a 12x8x1 image: 6 blocks, 112 bytes.
C9_ExampleReached ==
    /\ enc.fn = "encode_main" /\ enc.err = "ok"
    /\ Requested = [bx |-> 4, by |-> 4, bz |-> 1, sx |-> 12, sy |-> 8, sz |-> 1]
    /\ file.size = 112
    /\ file.hdr = <<19, 171, 161, 92, 4, 4, 1, 12, 0, 0, 8, 0, 0, 1, 0, 0>>

\* C10: a file shorter than 16 bytes is rejected as too small whatever its
\* first bytes are (the length is checked before the magic); a file of 16
\* bytes or more with a wrong magic byte is rejected for its magic.
C10_LengthBeforeMagic ==
    dec.err # "none"
        => /\ file.size < 16 => dec.err = "input too small"
           /\ (file.size >= 16 /\ \E i \in 1 .. 4 : file.hdr[i] # <<19, 171, 161, 92>>[i])
                  => dec.err = "invalid ASTC magic"

C10_Witness ==
    /\ file.size = 4 /\ file.hdr[2] # 171
    /\ dec.err = "input too small"

C10_BadMagicReached ==
    /\ file.size >= 16 /\ file.hdr[4] # 92 /\ SubSeq(file.hdr, 1, 3) = <<19, 171, 161>>
    /\ dec.err = "invalid ASTC magic"

\* A header field that is zero.
ZeroField(h) == h.bx = 0 \/ h.by = 0 \/ h.bz = 0 \/ h.sx = 0 \/ h.sy = 0 \/ h.sz = 0

\* C11: once the length and the magic are accepted, decode_main fails with
\* "invalid ASTC header" exactly when one of the six fields it read is zero;
\* a header of six non-zero fields gets past the header parser, and every
\* block dimension a ceiling division has divided by is non-zero.
C11_ZeroDimensionRejected ==
    HeaderRead
        => /\ dec.hdr = ReadHeader(file.hdr)
           /\ ZeroField(dec.hdr) <=> dec.err = "invalid ASTC header"
           /\ ~ZeroField(dec.hdr) => dec.divisors = <<dec.hdr.bx, dec.hdr.by, dec.hdr.bz>>
           /\ \A i \in 1 .. Len(dec.divisors) : dec.divisors[i] # 0

C11_Witness ==
    /\ dec.err = "invalid ASTC header"
    /\ dec.hdr.bx = 0 /\ dec.hdr.by = 4 /\ dec.hdr.sx = 12 /\ dec.hdr.sy = 8 /\ dec.hdr.sz = 1
    /\ dec.divisors = <<>>

\* A 16-byte header of six non-zero fields got past the header parser.
C11_AcceptedReached ==
    /\ file.size = 16 /\ dec.err = "truncated ASTC data"
    /\ dec.hdr = [bx |-> 255, by |-> 255, bz |-> 255, sx |-> 1, sy |-> 1, sz |-> 1]

\* Exact arithmetic, on 12-digit numbers (no product below reaches 256^12).
Exact(v) == ToBytes(v, 12)

Widen(a) == a \o <<0, 0, 0, 0>>

\* The ceiling of s / b for positive s and b.
Ceil(s, b) == IF s % b = 0 THEN s \div b ELSE s \div b + 1

\* ceil(sx/bx) * ceil(sy/by) * ceil(sz/bz), exactly.
BlockCount(bx, by, bz, sx, sy, sz) ==
    MulBytes(MulBytes(Exact(Ceil(sx, bx)), Exact(Ceil(sy, by))), Exact(Ceil(sz, bz)))

\* 16 + blockCount * 16 for the header h, exactly.
TotalFileSize(h) ==
    AddBytes(Exact(16), MulBytes(BlockCount(h.bx, h.by, h.bz, h.sx, h.sy, h.sz), Exact(16)))

\* The header h describes a file whose size fits a size_t.
FitsSizeT(h) == SubSeq(TotalFileSize(h), 9, 12) = <<0, 0, 0, 0>>

\* decode_main accepted the container and hands exactly the blocks of the
\* header, which lie inside the file, to the codec.
BlocksInsideFile ==
    /\ ~LessBytes(Exact(file.size), TotalFileSize(dec.hdr))
    /\ dec.blocks_off = 16
    /\ AddBytes(Exact(16), Widen(dec.blocks_len)) = TotalFileSize(dec.hdr)

\* C12 (as the spec states it): a file shorter than 16 + blockCount*16 bytes,
\* blockCount computed from its own header, is rejected; of an
\* accepted file the codec gets the blockCount*16 bytes at offset 16, all
\* inside the file.
C12_ShortFileRejected ==
    (HeaderRead /\ ~ZeroField(dec.hdr))
        => /\ LessBytes(Exact(file.size), TotalFileSize(dec.hdr))
                  => dec.err = "truncated ASTC data"
           /\ dec.err = "ok" => BlocksInsideFile

\* The same for headers whose file size fits a size_t.
C12_ShortFileRejectedWithinSizeT ==
    (HeaderRead /\ ~ZeroField(dec.hdr) /\ FitsSizeT(dec.hdr))
        => /\ LessBytes(Exact(file.size), TotalFileSize(dec.hdr))
                  => dec.err = "truncated ASTC data"
           /\ dec.err = "ok" => BlocksInsideFile

\* The 16-byte file 13 AB A1 5C 04 04 01 00 00 80 00 00 80 00 00 04 (2^60
\* blocks) is accepted, with no block data.
C12_HeaderOnlyFileAccepted ==
    /\ file.size = 16 /\ dec.err = "ok"
    /\ file.hdr = <<19, 171, 161, 92, 4, 4, 1, 0, 0, 128, 0, 0, 128, 0, 0, 4>>
    /\ dec.blocks_len = Sz(0)

\* A file cut by one byte is rejected, a whole one accepted.
C12_CutFileRejected ==
    /\ file.size = 111 /\ dec.err = "truncated ASTC data"
    /\ dec.hdr = [bx |-> 4, by |-> 4, bz |-> 1, sx |-> 12, sy |-> 8, sz |-> 1]

\* (s + b - 1) / b is the ceiling of s / b and s + b - 1 fits a 32-bit int.
CeilingExact(s, b) == BlocksAlong(s, b) = Ceil(s, b) /\ s + b - 1 <= 2147483647

CeilingsExact(h) ==
    CeilingExact(h.sx, h.bx) /\ CeilingExact(h.sy, h.by) /\ CeilingExact(h.sz, h.bz)

\* total_blocks of the code is the exact block count of the header h.
TotalBlocksExact(h) ==
    Widen(TotalBlocks(h.bx, h.by, h.bz, h.sx, h.sy, h.sz))
        = BlockCount(h.bx, h.by, h.bz, h.sx, h.sy, h.sz)

\* C13 (as the spec states it): for block dimensions 1..255 and image
\* dimensions 1..2^24-1, (s + b - 1) / b is the ceiling of s / b with no
\* overflow of the int, and total_blocks, the product of the three counts,
\* is ceil(width/bx) * ceil(height/by) * ceil(depth/bz), in the reader and in
\* the encoder.
C13_BlockCountExact ==
    /\ (HeaderRead /\ ~ZeroField(dec.hdr))
          => (CeilingsExact(dec.hdr) /\ TotalBlocksExact(dec.hdr))
    /\ (enc.fn = "encode_main" /\ enc.err = "ok" /\ ImageInRange)
          => (CeilingsExact(Requested) /\ TotalBlocksExact(Requested))

\* The part of C13 on the int expression alone.
C13_CeilingDivisionExact ==
    /\ (HeaderRead /\ ~ZeroField(dec.hdr)) => CeilingsExact(dec.hdr)
    /\ (enc.fn = "encode_main" /\ enc.err = "ok" /\ ImageInRange) => CeilingsExact(Requested)

\* C13 for headers whose file size fits a size_t.
C13_BlockCountExactWithinSizeT ==
    (HeaderRead /\ ~ZeroField(dec.hdr) /\ FitsSizeT(dec.hdr)) => TotalBlocksExact(dec.hdr)

\* The header 3x3x3, 16777215 x 16777215 x 16777215: 5592405^3 blocks, which
\* is 9 * 2^64 + 8881734390123865581, and total_blocks holds the remainder.
C13_WrappedProductReached ==
    /\ HeaderRead
    /\ dec.hdr = [bx |-> 3, by |-> 3, bz |-> 3,
                  sx |-> 2 ^ 24 - 1, sy |-> 2 ^ 24 - 1, sz |-> 2 ^ 24 - 1]
    /\ TotalBlocks(3, 3, 3, 2 ^ 24 - 1, 2 ^ 24 - 1, 2 ^ 24 - 1)
           = <<237, 37, 180, 208, 94, 66, 66, 123>>
    /\ BlockCount(3, 3, 3, 2 ^ 24 - 1, 2 ^ 24 - 1, 2 ^ 24 - 1)
           = <<237, 37, 180, 208, 94, 66, 66, 123, 9, 0, 0, 0>>

\* Sizes a dimension of a header is raised to.
SizeSamples == {1, 8, 12, 255, 65536, 2 ^ 18, 2 ^ 23, 2 ^ 24 - 1}

\* The headers got from h by raising one of width, height, depth.
Raised(h) ==
    { [h EXCEPT !.sx = s] : s \in {t \in SizeSamples : t >= h.sx} }
    \cup { [h EXCEPT !.sy = s] : s \in {t \in SizeSamples : t >= h.sy} }
    \cup { [h EXCEPT !.sz = s] : s \in {t \in SizeSamples : t >= h.sz} }

TotalBlocksOf(h) == TotalBlocks(h.bx, h.by, h.bz, h.sx, h.sy, h.sz)

\* C14 (as the spec states it): raising one of width, height, depth of a
\* header, the block shape and the other two held, never lowers total_blocks.
C14_BlockCountMonotone ==
    (HeaderRead /\ ~ZeroField(dec.hdr))
        => \A g \in Raised(dec.hdr) : ~LessBytes(TotalBlocksOf(g), TotalBlocksOf(dec.hdr))

\* C14 for raised headers whose file size fits a size_t.
C14_MonotoneWithinSizeT ==
    (HeaderRead /\ ~ZeroField(dec.hdr))
        => \A g \in Raised(dec.hdr) :
               FitsSizeT(g) => ~LessBytes(TotalBlocksOf(g), TotalBlocksOf(dec.hdr))

\* Block 4x4x1, 8388608 x 8388608: depth 262144 gives 2^60 blocks, depth
\* 8388608 gives total_blocks 0.
C14_DropReached ==
    /\ HeaderRead
    /\ dec.hdr = [bx |-> 4, by |-> 4, bz |-> 1, sx |-> 2 ^ 23, sy |-> 2 ^ 23, sz |-> 2 ^ 18]
    /\ TotalBlocksOf(dec.hdr) = <<0, 0, 0, 0, 0, 0, 0, 16>>
    /\ TotalBlocksOf([dec.hdr EXCEPT !.sz = 2 ^ 23]) = Sz(0)

---------------------------------------------------------------------------
(* Claims on the argument checks of the image entry points.                *)

\* A decompress call returned; its pointers are present, its dimensions
\* non-zero and its output kind supported.
DecompressChecked ==
    /\ out # NoOut /\ call.fn \in DecompressFns
    /\ call.ctxp # NULL /\ call.data # NULL /\ call.out_rgba # NULL
    /\ call.dim_x # 0 /\ call.dim_y # 0 /\ call.dim_z # 0
    /\ KindOf(call) \in {ASTCENC_TYPE_U8, ASTCENC_TYPE_F16, ASTCENC_TYPE_F32}

\* width * height * depth * 4 * elementSize of the call, exactly.
RequiredBytes == call.dim_x * call.dim_y * call.dim_z * 4 * ElementSize(KindOf(call))

\* C15 (as the spec states it): a decompress call (ex, rgba8 or rgba32f,
\* arguments otherwise valid) whose out_len is below
\* width*height*depth*4*elementSize returns the out-of-memory code and does
\* not invoke the codec.
C15_ShortOutputRejected ==
    (DecompressChecked /\ call.out_len < RequiredBytes)
        => (out.ret = ASTCENC_ERR_OUT_OF_MEM /\ ~out.invoked)

\* C15 for calls whose required size fits a size_t.
C15_ShortOutputRejectedWithinSizeT ==
    (DecompressChecked /\ call.out_len < RequiredBytes /\ RequiredBytes < SizeMod)
        => (out.ret = ASTCENC_ERR_OUT_OF_MEM /\ ~out.invoked)

\* A short buffer rejected by each of the three entry points.
C15_RejectedReached ==
    /\ DecompressChecked /\ call.fn = "decompress_image_rgba32f"
    /\ call.out_len = RequiredBytes - 1
    /\ out.ret = ASTCENC_ERR_OUT_OF_MEM /\ ~out.invoked

\* The codec invoked on a buffer declared empty: the required size is a
\* multiple of the size_t range.
C15_CodecInvokedOnShortBuffer ==
    /\ DecompressChecked /\ call.fn = "decompress_image_rgba8"
    /\ call.out_len = 0 /\ RequiredBytes = SizeMod
    /\ out.invoked

\* The arguments of a compress or decompress call that make it invalid: an
\* absent context, pixel buffer or compressed-data buffer, a zero dimension,
\* an element kind other than U8, F16, F32.
InvalidArguments ==
    \/ call.ctxp = NULL
    \/ BaseOf(call) = NULL
    \/ (IF call.fn = "compress_image_ex" THEN call.out_data ELSE call.data) = NULL
    \/ call.dim_x = 0 \/ call.dim_y = 0 \/ call.dim_z = 0
    \/ KindOf(call) \notin {ASTCENC_TYPE_U8, ASTCENC_TYPE_F16, ASTCENC_TYPE_F32}

\* C16: a compress or decompress call with invalid arguments returns the
\* bad-parameter code and does not invoke the codec, in decompress whatever
\* out_len is; any other call either is refused by the output-size check of
\* decompress or invokes the codec and returns the codec's result.
C16_InvalidArgumentFirst ==
    (out # NoOut /\ call.fn \in {"compress_image_ex"} \cup DecompressFns)
        => /\ InvalidArguments => (out.ret = ASTCENC_ERR_BAD_PARAM /\ ~out.invoked)
           /\ ~InvalidArguments =>
                 \/ out.invoked /\ out.ret = call.codec
                 \/ /\ call.fn \in DecompressFns
                    /\ ~out.invoked /\ out.ret = ASTCENC_ERR_OUT_OF_MEM
           /\ call.fn = "compress_image_ex" => out.ret # ASTCENC_ERR_OUT_OF_MEM \/ out.invoked

\* C16 witness: decompress with an unsupported kind and an empty output
\* buffer returns the bad-parameter code, not the out-of-memory one.
C16_Witness ==
    /\ out # NoOut /\ call.fn = "decompress_image_ex"
    /\ call.out_type = 3 /\ call.out_len = 0
    /\ call.ctxp # NULL /\ call.data # NULL /\ call.out_rgba # NULL
    /\ call.dim_x = 2 /\ call.dim_y = 2 /\ call.dim_z = 2
    /\ out.ret = ASTCENC_ERR_BAD_PARAM /\ ~out.invoked

\* The codec's error comes back unchanged from compress.
C16_CodecErrorReached ==
    /\ out # NoOut /\ call.fn = "compress_image_ex" /\ out.invoked
    /\ call.codec = "ASTCENC_ERR_BAD_CONTEXT" /\ out.ret = "ASTCENC_ERR_BAD_CONTEXT"

\* C17: with no descriptor the codec gets the channel order (Red, Green,
\* Blue, Alpha); with a descriptor it gets the four selectors of the
\* descriptor, each in its own position, whatever the seven values they
\* have; the descriptor never changes whether the call reaches the codec.
C17_SwizzleResolved ==
    (out # NoOut /\ call.fn \in {"compress_image_ex", "decompress_image_ex"})
        => /\ out.invoked =>
                 out.swz = IF call.in_swz = <<>>
                           THEN [r |-> 0, g |-> 1, b |-> 2, a |-> 3]
                           ELSE call.in_swz[1]
           /\ out.invoked =
                 IF call.fn = "compress_image_ex"
                 THEN astc_native_compress_image_ex([call EXCEPT !.in_swz = <<>>]).invoked
                 ELSE astc_native_decompress_image_ex([call EXCEPT !.in_swz = <<>>]).invoked

C17_Witness ==
    /\ out # NoOut /\ out.invoked /\ call.fn = "compress_image_ex"
    /\ call.in_swz = <<[r |-> 6, g |-> 5, b |-> 4, a |-> 0]>>
    /\ out.swz = [r |-> 6, g |-> 5, b |-> 4, a |-> 0]

\* No descriptor: the identity order.
C17_IdentityReached ==
    /\ out # NoOut /\ out.invoked /\ call.fn = "decompress_image_ex"
    /\ call.in_swz = <<>>
    /\ out.swz = [r |-> ASTCENC_SWZ_R, g |-> ASTCENC_SWZ_G, b |-> ASTCENC_SWZ_B, a |-> ASTCENC_SWZ_A]

---------------------------------------------------------------------------
(* Claims on context creation.                                             *)

\* C18: a creation call (astc_native_context_create or
\* astc_native_context_alloc_from_data) that does not return success leaves
\* the caller's handle variable as it was and allocates no context; it
\* returns the bad-parameter code for an absent argument and the codec's
\* error otherwise; a call that returns success stores the new context.
C18_NoHandleOnFailure ==
    last.kind = "alloc"
        => /\ last.ret # ASTCENC_SUCCESS => last.after = last.before
           /\ last.ret = ASTCENC_SUCCESS
                 => (last.out_ctx # NULL /\ last.after = Len(ctxs) /\ last.after # NULL)
           /\ last.out_ctx = NULL => last.ret = ASTCENC_ERR_BAD_PARAM
           /\ last.after \in 0 .. Len(ctxs)

\* C18 witness: astc_native_context_create failed in the allocation while the
\* caller's variable held an earlier context, and still holds it.
C18_Witness ==
    /\ last.kind = "alloc" /\ last.fn = "context_create"
    /\ last.ret = ASTCENC_ERR_OUT_OF_MEM
    /\ last.before = 1 /\ last.after = 1 /\ Len(ctxs) = 1

\* The same for astc_native_context_alloc_from_data.
C18_AllocFromDataFailureReached ==
    /\ last.kind = "alloc" /\ last.fn = "context_alloc_from_data"
    /\ last.ret = ASTCENC_ERR_OUT_OF_MEM
    /\ last.before = 1 /\ last.after = 1 /\ Len(ctxs) = 1

---------------------------------------------------------------------------
(* Block info extraction.  A record of the codec (astcenc_block_info) and   *)
(* one of the caller (astc_native_block_info) have the same fields; arrays  *)
(* are sequences, color_endpoints[4][2][4] in row-major order.  A pointer   *)
(* to a caller's record is <<>> when absent and <<rec>> else.               *)

\* Array lengths of astc_native_block_info.
EndpointModeSlots == 4

EndpointValueSlots == 4 * 2 * 4

WeightSlots == 216

\* memcpy(dst, src, sizeof(dst)) for a destination array of n elements.
Memcpy(dst, src, n) == [i \in 1 .. Len(dst) |-> IF i <= n THEN src[i] ELSE dst[i]]

\* bool ? 1 : 0.
Flag(b) == IF b THEN 1 ELSE 0

\* The assignments of lines 716-741 from the codec's record info into o.
CopyBlockInfoActiveOnly(o, info) ==
    [profile |-> info.profile,
     block_x |-> info.block_x, block_y |-> info.block_y, block_z |-> info.block_z,
     texel_count |-> info.texel_count,
     is_error_block |-> Flag(info.is_error_block),
     is_constant_block |-> Flag(info.is_constant_block),
     is_hdr_block |-> Flag(info.is_hdr_block),
     is_dual_plane_block |-> Flag(info.is_dual_plane_block),
     partition_count |-> info.partition_count,
     partition_index |-> info.partition_index,
     dual_plane_component |-> info.dual_plane_component,
     color_endpoint_modes |->
         Memcpy(o.color_endpoint_modes, info.color_endpoint_modes, info.partition_count),
     color_level_count |-> info.color_level_count,
     weight_level_count |-> info.weight_level_count,
     weight_x |-> info.weight_x, weight_y |-> info.weight_y, weight_z |-> info.weight_z,
     color_endpoints |-> Memcpy(o.color_endpoints, info.color_endpoints, EndpointValueSlots),
     weight_values_plane1 |->
         Memcpy(o.weight_values_plane1, info.weight_values_plane1, info.texel_count),
     weight_values_plane2 |->
         Memcpy(o.weight_values_plane2, info.weight_values_plane2, info.texel_count),
     partition_assignment |->
         Memcpy(o.partition_assignment, info.partition_assignment, info.texel_count)]

CopyBlockInfo(o, info) ==
    [profile |-> info.profile,
     block_x |-> info.block_x, block_y |-> info.block_y, block_z |-> info.block_z,
     texel_count |-> info.texel_count,
     is_error_block |-> Flag(info.is_error_block),
     is_constant_block |-> Flag(info.is_constant_block),
     is_hdr_block |-> Flag(info.is_hdr_block),
     is_dual_plane_block |-> Flag(info.is_dual_plane_block),
     partition_count |-> info.partition_count,
     partition_index |-> info.partition_index,
     dual_plane_component |-> info.dual_plane_component,
     color_endpoint_modes |->
         Memcpy(o.color_endpoint_modes, info.color_endpoint_modes, EndpointModeSlots),
     color_level_count |-> info.color_level_count,
     weight_level_count |-> info.weight_level_count,
     weight_x |-> info.weight_x, weight_y |-> info.weight_y, weight_z |-> info.weight_z,
     color_endpoints |-> Memcpy(o.color_endpoints, info.color_endpoints, EndpointValueSlots),
     weight_values_plane1 |->
         Memcpy(o.weight_values_plane1, info.weight_values_plane1, WeightSlots),
     weight_values_plane2 |->
         Memcpy(o.weight_values_plane2, info.weight_values_plane2, WeightSlots),
     partition_assignment |->
         Memcpy(o.partition_assignment, info.partition_assignment, WeightSlots)]

\* astc_native_get_block_info; r.codec is the result of astcenc_get_block_info
\* and r.info the record it fills.  Gives the return value and the caller's
\* record pointer afterwards.
astc_native_get_block_info(r) ==
    IF r.ctxp = NULL \/ r.data = NULL \/ r.out_info = <<>>
    THEN [ret |-> ASTCENC_ERR_BAD_PARAM, out_info |-> r.out_info]
    ELSE IF r.codec # ASTCENC_SUCCESS
    THEN [ret |-> r.codec, out_info |-> r.out_info]
    ELSE [ret |-> ASTCENC_SUCCESS, out_info |-> <<CopyBlockInfo(r.out_info[1], r.info)>>]

---------------------------------------------------------------------------
(* SpecBlockInfo: one call of astc_native_get_block_info.                   *)

\* A block info record with scalars from s, flags f and array entries
\* k + index.
BlockInfo(s, f, k, texels, parts) ==
    [profile |-> s,
     block_x |-> 4 + s, block_y |-> 4, block_z |-> 1,
     texel_count |-> texels,
     is_error_block |-> f, is_constant_block |-> ~f,
     is_hdr_block |-> f, is_dual_plane_block |-> ~f,
     partition_count |-> parts, partition_index |-> 7 + s, dual_plane_component |-> s,
     color_endpoint_modes |-> [i \in 1 .. EndpointModeSlots |-> k + i],
     color_level_count |-> 6 + s, weight_level_count |-> 5 + s,
     weight_x |-> 3, weight_y |-> 2 + s, weight_z |-> 1,
     color_endpoints |-> [i \in 1 .. EndpointValueSlots |-> 2 * k + i],
     weight_values_plane1 |-> [i \in 1 .. WeightSlots |-> 3 * k + i],
     weight_values_plane2 |-> [i \in 1 .. WeightSlots |-> 4 * k + i],
     partition_assignment |-> [i \in 1 .. WeightSlots |-> (k + i) % 4]]

\* Records the codec fills.
CodecInfos ==
    { BlockInfo(0, FALSE, 10, 16, 1), BlockInfo(1, TRUE, 20, 144, 2),
      BlockInfo(2, TRUE, 30, 216, 4), BlockInfo(3, FALSE, 40, 27, 3) }

\* Records of the caller before the call: one never written (flags 0) and one
\* left by an earlier call.
CallerInfos ==
    { CopyBlockInfo(BlockInfo(0, FALSE, 0, 0, 0), BlockInfo(0, FALSE, 0, 0, 0)),
      CopyBlockInfo(BlockInfo(0, FALSE, 0, 0, 0), BlockInfo(5, TRUE, 50, 64, 4)) }

BlockInfoReqs ==
    [fn : {"get_block_info"}, ctxp : {NULL, 1}, data : {NULL, 1},
     out_info : {<<>>} \cup {<<o>> : o \in CallerInfos},
     codec : {ASTCENC_SUCCESS, "ASTCENC_ERR_BAD_CONTEXT", ASTCENC_ERR_BAD_PARAM},
     info : CodecInfos]

InitBlockInfo ==
    /\ call \in BlockInfoReqs
    /\ out = NoOut
    /\ ProgIdle
    /\ ContIdle

GetBlockInfo ==
    /\ call.fn = "get_block_info"
    /\ out = NoOut
    /\ out' = astc_native_get_block_info(call)
    /\ UNCHANGED <<call, progVars, contVars>>

NextBlockInfo == GetBlockInfo

SpecBlockInfo == InitBlockInfo /\ [][NextBlockInfo]_vars

\* C19: the call returns the bad-parameter code if the context, the block
\* pointer or the output record is absent, else the codec's error if it gave
\* one; on every failure the caller's record is as before; on success each
\* scalar of the record is the codec's, each flag is 1 or 0 as the codec's is
\* true or false, and all 4, 4*2*4 and 216 array entries are the codec's.
C19_BlockInfoCopied ==
    out # NoOut
        => /\ (call.ctxp = NULL \/ call.data = NULL \/ call.out_info = <<>>)
                 => out.ret = ASTCENC_ERR_BAD_PARAM
           /\ (call.ctxp # NULL /\ call.data # NULL /\ call.out_info # <<>>)
                 => out.ret = call.codec
           /\ out.ret # ASTCENC_SUCCESS => out.out_info = call.out_info
           /\ out.ret = ASTCENC_SUCCESS =>
                 LET o == out.out_info[1]
                     i == call.info
                 IN  /\ o.profile = i.profile
                     /\ o.block_x = i.block_x /\ o.block_y = i.block_y /\ o.block_z = i.block_z
                     /\ o.texel_count = i.texel_count
                     /\ (o.is_error_block = 1) = i.is_error_block
                     /\ (o.is_constant_block = 1) = i.is_constant_block
                     /\ (o.is_hdr_block = 1) = i.is_hdr_block
                     /\ (o.is_dual_plane_block = 1) = i.is_dual_plane_block
                     /\ {o.is_error_block, o.is_constant_block, o.is_hdr_block,
                         o.is_dual_plane_block} \subseteq {0, 1}
                     /\ o.partition_count = i.partition_count
                     /\ o.partition_index = i.partition_index
                     /\ o.dual_plane_component = i.dual_plane_component
                     /\ o.color_level_count = i.color_level_count
                     /\ o.weight_level_count = i.weight_level_count
                     /\ o.weight_x = i.weight_x /\ o.weight_y = i.weight_y
                     /\ o.weight_z = i.weight_z
                     /\ Len(o.color_endpoint_modes) = 4
                     /\ \A k \in 1 .. 4 : o.color_endpoint_modes[k] = i.color_endpoint_modes[k]
                     /\ Len(o.color_endpoints) = 32
                     /\ \A k \in 1 .. 32 : o.color_endpoints[k] = i.color_endpoints[k]
                     /\ Len(o.weight_values_plane1) = 216 /\ Len(o.weight_values_plane2) = 216
                     /\ Len(o.partition_assignment) = 216
                     /\ \A k \in 1 .. 216 :
                           /\ o.weight_values_plane1[k] = i.weight_values_plane1[k]
                           /\ o.weight_values_plane2[k] = i.weight_values_plane2[k]
                           /\ o.partition_assignment[k] = i.partition_assignment[k]

\* C19 witness: a record left by an earlier call is overwritten by a block of
\* one partition and 16 texels: the slots past them are the codec's too.
C19_Witness ==
    /\ out # NoOut /\ out.ret = ASTCENC_SUCCESS
    /\ call.out_info[1].partition_count = 4 /\ call.out_info[1].texel_count = 64
    /\ call.info.partition_count = 1 /\ call.info.texel_count = 16
    /\ out.out_info[1].color_endpoint_modes = call.info.color_endpoint_modes
    /\ out.out_info[1].weight_values_plane2[216] = call.info.weight_values_plane2[216]

\* The codec's error with the caller's record untouched.
C19_CodecErrorReached ==
    /\ out # NoOut /\ out.ret = "ASTCENC_ERR_BAD_CONTEXT"
    /\ call.out_info # <<>> /\ out.out_info = call.out_info

---------------------------------------------------------------------------
(* SpecImage: a caller's persistent image object through a sequence of      *)
(* create, init and destroy calls.  out.obj is the object the caller holds  *)
(* (<<>> when none, <<img>> else; after a create call, the object that call *)
(* made), call the last call with the object as it was before.              *)

\* Widths and heights that are drawn; depths are drawn from Dims.
Widths == 0 .. Min(2, MaxDim)

Heights == 0 .. Min(1, MaxDim)

ImageCreateFns == {"image_create_u8", "image_create_f16", "image_create_f32"}

\* The object a create call allocates.
CreatedImage(fn) ==
    CASE fn = "image_create_u8"  -> astc_native_image_create_u8
      [] fn = "image_create_f16" -> astc_native_image_create_f16
      [] fn = "image_create_f32" -> astc_native_image_create_f32

InitImage ==
    /\ call = [fn |-> "none"]
    /\ out = [ret |-> "none", obj |-> <<>>, oob |-> FALSE]
    /\ ProgIdle
    /\ ContIdle

\* astc_native_image_create_u8 / _f16 / _f32.
ImageCreate(fn, out_img) ==
    /\ call' = [fn |-> fn, obj |-> out.obj, out_img |-> out_img]
    /\ out' = IF out_img = NULL
              THEN [ret |-> ASTCENC_ERR_BAD_PARAM, obj |-> out.obj, oob |-> FALSE]
              ELSE [ret |-> ASTCENC_SUCCESS, obj |-> <<CreatedImage(fn)>>, oob |-> FALSE]
    /\ UNCHANGED <<progVars, contVars>>

\* The state after an init call r with result res.
Initialised(r, res) ==
    /\ call' = [r EXCEPT !.obj = out.obj]
    /\ out' = [ret |-> res.ret,
               obj |-> IF r.img = <<>> THEN out.obj ELSE <<res.img>>,
               oob |-> res.oob]
    /\ UNCHANGED <<progVars, contVars>>

InitArgs(fn, imgp, dim_x, dim_y, dim_z, rgba) ==
    [fn |-> fn, obj |-> <<>>, img |-> imgp, dim_x |-> dim_x, dim_y |-> dim_y,
     dim_z |-> dim_z, rgba |-> rgba]

ImageObjInitU8(imgp, dim_x, dim_y, dim_z, rgba) ==
    /\ imgp \in {<<>>, out.obj}
    /\ Initialised(InitArgs("image_init_u8", imgp, dim_x, dim_y, dim_z, rgba),
                   astc_native_image_init_u8(
                       InitArgs("image_init_u8", imgp, dim_x, dim_y, dim_z, rgba)))

ImageObjInitF16(imgp, dim_x, dim_y, dim_z, rgba) ==
    /\ imgp \in {<<>>, out.obj}
    /\ Initialised(InitArgs("image_init_f16", imgp, dim_x, dim_y, dim_z, rgba),
                   astc_native_image_init_f16(
                       InitArgs("image_init_f16", imgp, dim_x, dim_y, dim_z, rgba)))

ImageObjInitF32(imgp, dim_x, dim_y, dim_z, rgba) ==
    /\ imgp \in {<<>>, out.obj}
    /\ Initialised(InitArgs("image_init_f32", imgp, dim_x, dim_y, dim_z, rgba),
                   astc_native_image_init_f32(
                       InitArgs("image_init_f32", imgp, dim_x, dim_y, dim_z, rgba)))

\* astc_native_image_destroy: nothing for an absent image, else the table
\* and the object are freed.
ImageDestroy(imgp) ==
    /\ call' = [fn |-> "image_destroy", obj |-> out.obj, img |-> imgp]
    /\ out' = [ret |-> "void", obj |-> IF imgp = <<>> THEN out.obj ELSE <<>>,
               oob |-> FALSE]
    /\ UNCHANGED <<progVars, contVars>>

NextImage ==
    \/ \E fn \in ImageCreateFns, out_img \in {NULL, 1} : ImageCreate(fn, out_img)
    \/ \E imgp \in {<<>>, out.obj}, dim_x \in Widths, dim_y \in Heights, dim_z \in Dims,
          rgba \in {NULL} \cup Bases : ImageObjInitU8(imgp, dim_x, dim_y, dim_z, rgba)
    \/ \E imgp \in {<<>>, out.obj}, dim_x \in Widths, dim_y \in Heights, dim_z \in Dims,
          rgba \in {NULL} \cup Bases : ImageObjInitF16(imgp, dim_x, dim_y, dim_z, rgba)
    \/ \E imgp \in {<<>>, out.obj}, dim_x \in Widths, dim_y \in Heights, dim_z \in Dims,
          rgba \in {NULL} \cup Bases : ImageObjInitF32(imgp, dim_x, dim_y, dim_z, rgba)
    \/ \E imgp \in {<<>>, out.obj} : ImageDestroy(imgp)

SpecImage == InitImage /\ [][NextImage]_vars

\* The last call was an init call.
InitCalled == call.fn \in ImageInitFns

\* The conditions under which an init call returns ASTCENC_ERR_BAD_PARAM.
InitRejected ==
    call.img = <<>> \/ call.rgba = NULL \/ call.dim_x = 0 \/ call.dim_y = 0 \/ call.dim_z = 0

\* C20: at every point of a sequence of create and init calls, the table of
\* the caller's image has as many entries as the recorded depth and no write
\* went past its allocated length; entry z is the first entry plus
\* z*width*height*4*elementSize for the recorded width, height and kind, and
\* after a successful init call these are the call's and the first entry is
\* the call's base pointer; an init call with an absent image or buffer or a
\* zero dimension, and no other, returns the bad-parameter code and leaves
\* the object as it was.
C20_ImageTableInvariant ==
    /\ ~out.oob
    /\ out.obj # <<>> =>
          LET img == out.obj[1]
              es  == ElementSize(img.data_type)
          IN  /\ Len(img.data) = img.dim_z
              /\ \A z \in 0 .. img.dim_z - 1 :
                    img.data[z + 1]
                       = (img.data[1] + z * img.dim_x * img.dim_y * 4 * es) % SizeMod
    /\ InitCalled =>
          /\ (out.ret = ASTCENC_ERR_BAD_PARAM) = InitRejected
          /\ InitRejected => out.obj = call.obj
          /\ ~InitRejected =>
                /\ out.ret = ASTCENC_SUCCESS
                /\ out.obj[1].dim_x = call.dim_x /\ out.obj[1].dim_y = call.dim_y
                /\ out.obj[1].dim_z = call.dim_z
                /\ out.obj[1].data_type = KindOf(call)
                /\ out.obj[1].data[1] = call.rgba

\* C20 witness: an object set up as U8 with 4 slices is set up again as F32
\* with 2 slices at another base; its table has the 2 new entries.
C20_Witness ==
    /\ InitCalled /\ out.ret = ASTCENC_SUCCESS /\ call.fn = "image_init_f32"
    /\ call.obj # <<>> /\ call.obj[1].data_type = ASTCENC_TYPE_U8
    /\ call.obj[1].dim_z = 4 /\ call.obj[1].data[1] = 4
    /\ call.dim_x = 2 /\ call.dim_y = 1 /\ call.dim_z = 2 /\ call.rgba = SizeMod \div 2
    /\ out.obj[1].data = <<SizeMod \div 2, (SizeMod \div 2 + 32) % SizeMod>>

\* The table grows from 1 to 4 entries.
C20_GrownReached ==
    /\ InitCalled /\ out.ret = ASTCENC_SUCCESS
    /\ call.obj # <<>> /\ call.obj[1].dim_z = 1 /\ call.dim_z = 4
    /\ Len(out.obj[1].data) = 4

\* A rejected init call (zero depth) on an object set up before.
C20_RejectedReached ==
    /\ InitCalled /\ out.ret = ASTCENC_ERR_BAD_PARAM
    /\ call.img # <<>> /\ call.rgba # NULL /\ call.dim_x = 2 /\ call.dim_y = 1
    /\ call.dim_z = 0
    /\ out.obj # <<>> /\ out.obj[1].dim_z = 3 /\ Len(out.obj[1].data) = 3

---------------------------------------------------------------------------
(* Claims on the required output size and on the fixed-kind entry points.   *)

\* size_t need as the entry point of call r computes it.
NeedOf(r) ==
    CASE r.fn = "decompress_image_ex" ->
             DecompressNeed(r.out_type, r.dim_x, r.dim_y, r.dim_z)
      [] r.fn = "decompress_image_rgba8" ->
             MulSz(MulSz(MulSz(SizeT(r.dim_x), SizeT(r.dim_y)), SizeT(r.dim_z)), 4)
      [] r.fn = "decompress_image_rgba32f" ->
             MulSz(MulSz(MulSz(MulSz(SizeT(r.dim_x), SizeT(r.dim_y)), SizeT(r.dim_z)), 4),
                   Sizeof("float"))

\* C21 (as the spec states it): for a decompress call with valid arguments,
\* the required size the entry point computes is the product
\* width*height*depth*4*elementSize itself, and the codec is invoked only if
\* out_len is at least that product.
C21_NeedExact ==
    DecompressChecked =>
        /\ NeedOf(call) = RequiredBytes
        /\ out.invoked => call.out_len >= RequiredBytes

\* C21 for calls whose product fits a size_t.
C21_NeedExactWithinSizeT ==
    (DecompressChecked /\ RequiredBytes < SizeMod) =>
        /\ NeedOf(call) = RequiredBytes
        /\ out.invoked => call.out_len >= RequiredBytes

\* The product of an F16 output is past the size_t range and the computed
\* size is the product less that range: the codec is invoked on a buffer
\* shorter than the product.
C21_WrappedNeedReached ==
    /\ DecompressChecked /\ call.fn = "decompress_image_ex"
    /\ call.out_type = ASTCENC_TYPE_F16
    /\ RequiredBytes >= SizeMod /\ NeedOf(call) = RequiredBytes - SizeMod
    /\ call.out_len < RequiredBytes /\ out.invoked

\* An exact size accepted: out_len equal to the product, the codec invoked.
C21_ExactAcceptedReached ==
    /\ DecompressChecked /\ call.fn = "decompress_image_ex"
    /\ call.out_type = ASTCENC_TYPE_F32 /\ RequiredBytes = 96
    /\ NeedOf(call) = 96 /\ call.out_len = 96 /\ out.invoked

\* The call of astc_native_decompress_image_ex with the arguments of the
\* fixed-kind call r, the given out_type and no swizzle descriptor.
ExCall(r, out_type) ==
    [fn |-> "decompress_image_ex", ctxp |-> r.ctxp, data |-> r.data,
     out_type |-> out_type, dim_x |-> r.dim_x, dim_y |-> r.dim_y, dim_z |-> r.dim_z,
     out_rgba |-> r.out_rgba, out_len |-> r.out_len, in_swz |-> <<>>, codec |-> r.codec]

\* C22: a call of astc_native_decompress_image_rgba8 (_rgba32f) returns what
\* astc_native_decompress_image_ex returns for the same arguments with
\* out_type U8 (F32) and no swizzle descriptor, invokes the codec in the same
\* cases, and hands it the same dimensions, kind, slice table and swizzle.
C22_FixedKindAgreesWithEx ==
    /\ (out # NoOut /\ call.fn = "decompress_image_rgba8") =>
          LET ex == astc_native_decompress_image_ex(ExCall(call, ASTCENC_TYPE_U8))
          IN  /\ out.ret = ex.ret /\ out.invoked = ex.invoked
              /\ out.img = ex.img /\ out.swz = ex.swz
    /\ (out # NoOut /\ call.fn = "decompress_image_rgba32f") =>
          LET ex == astc_native_decompress_image_ex(ExCall(call, ASTCENC_TYPE_F32))
          IN  /\ out.ret = ex.ret /\ out.invoked = ex.invoked
              /\ out.img = ex.img /\ out.swz = ex.swz

\* C22 witness: the float entry point hands the codec a two-slice F32 view
\* with the identity swizzle, as the extended one does.
C22_Witness ==
    /\ out # NoOut /\ call.fn = "decompress_image_rgba32f" /\ out.invoked
    /\ call.dim_x = 1 /\ call.dim_y = 2 /\ call.dim_z = 2 /\ call.out_len = 64
    /\ out.img.data_type = ASTCENC_TYPE_F32
    /\ out.img.data = <<call.out_rgba, (call.out_rgba + 32) % SizeMod>>
    /\ out.swz = [r |-> 0, g |-> 1, b |-> 2, a |-> 3]
    /\ astc_native_decompress_image_ex(ExCall(call, ASTCENC_TYPE_F32)).img = out.img

\* Both return the out-of-memory code for a float buffer one byte short.
C22_BothRejectReached ==
    /\ out # NoOut /\ call.fn = "decompress_image_rgba32f"
    /\ call.ctxp # NULL /\ call.data # NULL /\ call.out_rgba # NULL
    /\ call.dim_x = 1 /\ call.dim_y = 2 /\ call.dim_z = 2 /\ call.out_len = 63
    /\ out.ret = ASTCENC_ERR_OUT_OF_MEM
    /\ astc_native_decompress_image_ex(ExCall(call, ASTCENC_TYPE_F32)).ret
          = ASTCENC_ERR_OUT_OF_MEM

\* The byte entry point returns the codec's error, as the extended one does.
C22_CodecErrorReached ==
    /\ out # NoOut /\ call.fn = "decompress_image_rgba8" /\ out.invoked
    /\ out.ret = "ASTCENC_ERR_BAD_CONTEXT" /\ out.img.data_type = ASTCENC_TYPE_U8

=============================================================================
